---- MODULE Spec2Model ----
(***************************************************************************)
(* The /healthz admission decision of metrics-sidecar                      *)
(* (pkg/handlers, HealthHandler.ServeHTTP) as a state machine.             *)
(*                                                                         *)
(* net/http runs every request in a goroutine of its own, and ServeHTTP    *)
(* takes no lock: the package-level variables shouldRandomize and          *)
(* resourceOverLoaded are read and written by all of them.  Every access   *)
(* to one of these two variables is a step of its own; what a goroutine    *)
(* does on its locals between two such accesses belongs to the step that   *)
(* precedes it.                                                            *)
(*                                                                         *)
(* Percentages: the code computes float64(usage)/float64(limit)*100.  The  *)
(* snapshots drawn below are multiples of limit/100, the quotient is a     *)
(* whole number and Pct computes it exactly.                               *)
(***************************************************************************)
EXTENDS Integers, Sequences, FiniteSets, TLC

\* Goroutines that may serve /healthz at the same time.
NumReq == 2

Procs == 1..NumReq

\* config.NewConfig defaults.
ResourceThresholdMemoryPercent == 80
ResourceThresholdCPUPercent == 80
MinimumPodsToKeepPercent == 50

\* net/http status codes written by ServeHTTP.
StatusOK == 200
StatusBadRequest == 400
StatusServiceUnavailable == 503

\* initContainerLimits: Deployment queries made before giving up.
maxRetries == 5

\* Client.ContainerLimits: fetched once by NewClient, which fails, and main
\* with it, unless both are > 0; GetContainerLimits then never fails and
\* collectResourceMetrics returns no error.
ContainerLimits == [CPULimit |-> 1000, MemLimit |-> 1000]

VARIABLES
  client,              \* the process and its k8s.Client: phase of main, Deployment
                       \* queries made by initContainerLimits, its lastErr, and
                       \* whether Client.ContainerLimits is set
  shouldRandomize,     \* package variable: TRUE = UNLOCKED, FALSE = LOCKED_REJECT
  resourceOverLoaded,  \* package variable written at line 122, read at line 126
  pc,                  \* per goroutine: where it is in ServeHTTP
  resourceMetrics,     \* per goroutine: the snapshot of its request
  status,              \* per goroutine: local status
  statusCode,          \* per goroutine: local statusCode
  randomValue,         \* per goroutine: local randomValue, NoDraw before the draw
  flagBefore,          \* history: shouldRandomize when the latest request was received
  lastAnswer,          \* history: the latest answer, "accepted" or "rejected" when its
                       \* snapshot was ready, not in shortage and overloaded, else "none"
  episode,             \* history: lastAnswer when the latest request was received
  metricsAnswer,       \* status code of the /metrics request being answered, 0
                       \* when there is none
  sidecars,            \* a fleet of processes, each with its own shouldRandomize
                       \* and the answer to its latest probe
  calc,                \* a ResourceMetrics and the ratio calculators applied to it
  details,             \* per goroutine: the numbers of the local details, the
                       \* body of the response
  conf,                \* the environment of the process and the Config that
                       \* NewConfig makes of it
  minimumPodsToKeep,   \* h.Config.MinimumPodsToKeepPercent: set before the
                       \* handler is built, never assigned after
  limitsInit,          \* a call of initContainerLimits: its locals i and lastErr,
                       \* what it returns, and the history of its attempts
  queried              \* per goroutine, history: the queries that its call of
                       \* collectResourceMetrics has made

vars == <<client, shouldRandomize, resourceOverLoaded, pc, resourceMetrics, status,
          statusCode, randomValue, flagBefore, lastAnswer, episode, metricsAnswer,
          sidecars, calc, details, conf, minimumPodsToKeep, limitsInit, queried>>

\* What the API server and metrics-server answer to a query that succeeds.
\* <<replicas, availableReplicas>>: 20% available, and exactly the minimum
\* h.Config.MinimumPodsToKeepPercent available (5 of 10 for the default).
DeploymentInfos == {<<10, 2>>, <<10, minimumPodsToKeep \div 10>>}
\* <<cpu millicores, memory MB>>: CPU exactly at its threshold with memory
\* above, and both above.
PodUsages == {<<800, 900>>, <<900, 900>>}

\* The three queries of collectResourceMetrics whose error is only logged.
Queries == {"deployment", "pod", "usage"}

\* The sets of queries that fail in one collection: none, or one of them.
Failures == {{}} \cup {{q} : q \in Queries}

\* What the queries that succeed answer in a collection where one fails.
OtherAnswers == <<<<10, minimumPodsToKeep \div 10>>, <<900, 900>>, TRUE>>

\* Values of rng.Float64() * 100, a number of [0, 100): 50, the default of
\* MinimumPodsToKeepPercent, and one above it, which is the largest whole
\* number of [0, 100) when the handler's minimum is 70 or more.
RandomValues == {50, IF minimumPodsToKeep < 70 THEN 70 ELSE 99}

\* randomValue of a request that has not drawn.
NoDraw == -1

\* The zero ResourceMetrics.  The field failed is history: the queries
\* that returned an error in the collection that built the snapshot.
NoMetrics == [DeploymentReplicas |-> 0, DeploymentAvailableReplicas |-> 0,
              ContainerCPULimit |-> 0, ContainerMemLimit |-> 0,
              ContainerReady |-> FALSE,
              ContainerCPUUsage |-> 0, ContainerMemUsage |-> 0,
              failed |-> {}]

\* A usage query that fails leaves the usage of the answer d, u, ready in
\* the snapshot.
SnapshotKeepsUsage(d, u, ready, failed) ==
  [DeploymentReplicas |-> IF "deployment" \in failed THEN 0 ELSE d[1],
   DeploymentAvailableReplicas |-> IF "deployment" \in failed THEN 0 ELSE d[2],
   ContainerCPULimit |-> ContainerLimits.CPULimit,
   ContainerMemLimit |-> ContainerLimits.MemLimit,
   ContainerReady |-> IF "pod" \in failed THEN FALSE ELSE ready,
   ContainerCPUUsage |-> u[1],
   ContainerMemUsage |-> u[2],
   failed |-> failed]

\* A usage query that fails after an overloaded request has been answered
\* leaves the usage of that earlier request in the snapshot.
SnapshotCached(d, u, ready, failed) ==
  [DeploymentReplicas |-> IF "deployment" \in failed THEN 0 ELSE d[1],
   DeploymentAvailableReplicas |-> IF "deployment" \in failed THEN 0 ELSE d[2],
   ContainerCPULimit |-> ContainerLimits.CPULimit,
   ContainerMemLimit |-> ContainerLimits.MemLimit,
   ContainerReady |-> IF "pod" \in failed THEN FALSE ELSE ready,
   ContainerCPUUsage |-> IF "usage" \in failed
                         THEN (IF lastAnswer = "none" THEN 0 ELSE u[1])
                         ELSE u[1],
   ContainerMemUsage |-> IF "usage" \in failed
                         THEN (IF lastAnswer = "none" THEN 0 ELSE u[2])
                         ELSE u[2],
   failed |-> failed]

\* A Pod query that fails leaves the container reported as ready.
SnapshotReadyWhenUnknown(d, u, ready, failed) ==
  [DeploymentReplicas |-> IF "deployment" \in failed THEN 0 ELSE d[1],
   DeploymentAvailableReplicas |-> IF "deployment" \in failed THEN 0 ELSE d[2],
   ContainerCPULimit |-> ContainerLimits.CPULimit,
   ContainerMemLimit |-> ContainerLimits.MemLimit,
   ContainerReady |-> IF "pod" \in failed THEN TRUE ELSE ready,
   ContainerCPUUsage |-> IF "usage" \in failed THEN 0 ELSE u[1],
   ContainerMemUsage |-> IF "usage" \in failed THEN 0 ELSE u[2],
   failed |-> failed]

\* collectResourceMetrics lines 186-243: the snapshot starts as the zero
\* value; a query that succeeds, with d, u or ready, fills its fields, a
\* query that fails is logged and leaves them zero.
Snapshot(d, u, ready, failed) ==
  [DeploymentReplicas |-> IF "deployment" \in failed THEN 0 ELSE d[1],
   DeploymentAvailableReplicas |-> IF "deployment" \in failed THEN 0 ELSE d[2],
   ContainerCPULimit |-> ContainerLimits.CPULimit,
   ContainerMemLimit |-> ContainerLimits.MemLimit,
   ContainerReady |-> IF "pod" \in failed THEN FALSE ELSE ready,
   ContainerCPUUsage |-> IF "usage" \in failed THEN 0 ELSE u[1],
   ContainerMemUsage |-> IF "usage" \in failed THEN 0 ELSE u[2],
   failed |-> failed]

\* usage/limit*100 for a positive limit.
Pct(num, den) == (num * 100) \div den

\* calcPodsRatio with its result held at 100.
calcPodsRatioClamped(m) ==
  IF m.DeploymentReplicas <= 0 THEN 0
  ELSE IF Pct(m.DeploymentAvailableReplicas, m.DeploymentReplicas) > 100 THEN 100
  ELSE Pct(m.DeploymentAvailableReplicas, m.DeploymentReplicas)

calcPodsRatio(m) ==
  IF m.DeploymentReplicas <= 0 THEN 0
  ELSE Pct(m.DeploymentAvailableReplicas, m.DeploymentReplicas)

calcMemoryPercent(m) ==
  IF m.ContainerMemLimit <= 0 THEN 0
  ELSE Pct(m.ContainerMemUsage, m.ContainerMemLimit)

\* calcCPUPercent guarding only against a limit of exactly zero.
calcCPUPercentZeroOnly(m) ==
  IF m.ContainerCPULimit = 0 THEN 0
  ELSE Pct(m.ContainerCPUUsage, m.ContainerCPULimit)

calcCPUPercent(m) ==
  IF m.ContainerCPULimit <= 0 THEN 0
  ELSE Pct(m.ContainerCPUUsage, m.ContainerCPULimit)

\* No details: the handler has not built them.
NoDetails == [replicas |-> 0, available_replicas |-> 0, availability_percent |-> 0,
              memory_percent |-> 0, cpu_percent |-> 0]

\* The details with the percentages left out of the computation.
DetailsWithoutPercent(m) ==
  [replicas |-> m.DeploymentReplicas,
   available_replicas |-> m.DeploymentAvailableReplicas,
   availability_percent |-> 0,
   memory_percent |-> 0,
   cpu_percent |-> 0]

\* ServeHTTP lines 63-79: the counts and the percentages of the map details,
\* written as the body of every response that carries a verdict.
Details(m) ==
  [replicas |-> m.DeploymentReplicas,
   available_replicas |-> m.DeploymentAvailableReplicas,
   availability_percent |-> calcPodsRatio(m),
   memory_percent |-> calcMemoryPercent(m),
   cpu_percent |-> calcCPUPercent(m)]

\* The overload test given precedence over the shortage guard.
ShortageUnlessOverloaded(m) ==
  /\ calcPodsRatio(m) < minimumPodsToKeep
  /\ ~(/\ calcMemoryPercent(m) > ResourceThresholdMemoryPercent
       /\ calcCPUPercent(m) > ResourceThresholdCPUPercent)

\* Line 102: the replica shortage guard.
Shortage(m) == calcPodsRatio(m) < minimumPodsToKeep

\* One resource above its threshold is enough.
OverloadedEither(m) ==
  \/ calcMemoryPercent(m) > ResourceThresholdMemoryPercent
  \/ calcCPUPercent(m) > ResourceThresholdCPUPercent

\* A resource exactly at its threshold counts as above it.
OverloadedAtThreshold(m) ==
  /\ calcMemoryPercent(m) >= ResourceThresholdMemoryPercent
  /\ calcCPUPercent(m) >= ResourceThresholdCPUPercent

\* A snapshot without usage counts as overloaded.
OverloadedWhenUnknown(m) ==
  \/ /\ calcMemoryPercent(m) > ResourceThresholdMemoryPercent
     /\ calcCPUPercent(m) > ResourceThresholdCPUPercent
  \/ /\ m.ContainerCPUUsage = 0
     /\ m.ContainerMemUsage = 0

\* Lines 122-123: the value stored in resourceOverLoaded.
Overloaded(m) ==
  /\ calcMemoryPercent(m) > ResourceThresholdMemoryPercent
  /\ calcCPUPercent(m) > ResourceThresholdCPUPercent

\* A draw equal to the threshold locks too.
DrawRejectsAtThreshold(r) == r >= minimumPodsToKeep

\* The draw locks when it is below the minimum.
DrawRejectsBelow(r) == r < minimumPodsToKeep

\* Line 133: the draw that locks.
DrawRejects(r) == r > minimumPodsToKeep

\* The derived ratios of a snapshot compared with the thresholds, stated
\* without division: availablePercent < minimumAvailablePercent.
BelowMinimum(m) ==
  IF m.DeploymentReplicas <= 0 THEN 0 < minimumPodsToKeep
  ELSE m.DeploymentAvailableReplicas * 100 < minimumPodsToKeep * m.DeploymentReplicas

\* cpuPercent > cpuPercentThreshold and memPercent > memPercentThreshold.
BothAbove(m) ==
  /\ m.ContainerCPULimit > 0
  /\ m.ContainerMemLimit > 0
  /\ m.ContainerCPUUsage * 100 > ResourceThresholdCPUPercent * m.ContainerCPULimit
  /\ m.ContainerMemUsage * 100 > ResourceThresholdMemoryPercent * m.ContainerMemLimit

\* The snapshot gets to the overload test.
ReachesTest(m) == m.ContainerReady /\ ~BelowMinimum(m)

\* An overload episode is made of snapshots that are ready, not in replica
\* shortage and above both thresholds.
InEpisode(m) == ReachesTest(m) /\ BothAbove(m)

\* The history of answers: what the answer with status code `code` to the
\* request of goroutine p makes of lastAnswer.
Answered(p, code) ==
  IF InEpisode(resourceMetrics[p])
  THEN IF code = StatusOK THEN "accepted" ELSE "rejected"
  ELSE "none"

\* The sidecars of a fleet: one process each, with its own package
\* variables.
NumSidecars == 4
Fleet == 1..NumSidecars

\* A sidecar that has answered no probe yet.
Unprobed == [shouldRandomize |-> TRUE, statusCode |-> 0, randomValue |-> NoDraw]

\* The snapshot every sidecar of the fleet collects: ready, 5 of 10 replicas
\* available, CPU and memory at 90% of their limits.
FleetMetrics == Snapshot(<<10, 5>>, <<900, 900>>, TRUE, {})

\* Numerators and denominators given to the ratio calculators; 15 is a
\* numerator above the positive denominator.
Numerators == {-5, 0, 5, 15}
Denominators == {-10, 0, 10}

\* The ResourceMetrics with the given usages, limits and replica counts.
CalcMetrics(cpu, cpuLimit, mem, memLimit, available, replicas) ==
  [NoMetrics EXCEPT !.ContainerCPUUsage = cpu, !.ContainerCPULimit = cpuLimit,
                    !.ContainerMemUsage = mem, !.ContainerMemLimit = memLimit,
                    !.DeploymentAvailableReplicas = available,
                    !.DeploymentReplicas = replicas]

\* No calculator has been applied.
NoCalc == [m |-> NoMetrics, applied |-> {}, cpu |-> 0, mem |-> 0, pods |-> 0]

(***************************************************************************)
(* initContainerLimits, client.go lines 84-136.  A Deployment read from    *)
(* the API server is the sequence of the containers of its Pod template,   *)
(* each with its name and its limits: the CPU limit in millicores and the  *)
(* memory limit in MiB, 0 when the container has none.  The names of the   *)
(* containers of a Pod template are distinct.                              *)
(***************************************************************************)

\* c.Config.ContainerName and the names of the containers of a Deployment.
ContainerName == "app"
ContainerNames == {"app", "other"}

\* cpuLimit and memLimit of lines 112-113.
LimitValues == {0, 1000}

Containers == [name : ContainerNames, cpuLimit : LimitValues, memLimit : LimitValues]

\* deploy.Spec.Template.Spec.Containers: no container, one, or two with
\* different names.
PodSpecs ==
  {<<>>} \cup {<<c>> : c \in Containers}
         \cup {cs \in Containers \X Containers : cs[1].name # cs[2].name}

\* The limits a call returns with an error: nil.
NoLimits == [CPULimit |-> 0, MemLimit |-> 0]

\* The limits pass when the CPU limit alone is positive.
ValidLimitsCPUOnly(cpuLimit, memLimit) == ~(cpuLimit <= 0)

\* Line 116: the limits pass the test.
ValidLimits(cpuLimit, memLimit) == ~(cpuLimit <= 0 \/ memLimit <= 0)

\* Lines 110-128, the loop over the containers from the k-th on: it returns
\* the limits of the named container when they are valid (lines 122-126);
\* when they are not, it sets lastErr and goes on with the next container
\* (lines 116-120).  found tells that the function returns from the loop.
RECURSIVE ScanContainers(_, _, _)
ScanContainers(containers, k, lastErr) ==
  IF k > Len(containers)
  THEN [found |-> FALSE, limits |-> NoLimits, lastErr |-> lastErr]
  ELSE IF containers[k].name = ContainerName
       THEN IF ValidLimits(containers[k].cpuLimit, containers[k].memLimit)
            THEN [found |-> TRUE,
                  limits |-> [CPULimit |-> containers[k].cpuLimit,
                              MemLimit |-> containers[k].memLimit],
                  lastErr |-> lastErr]
            ELSE ScanContainers(containers, k + 1, "InvalidLimits")
       ELSE ScanContainers(containers, k + 1, lastErr)

\* The Pod template has the named container.
HasContainer(containers) ==
  \E k \in 1..Len(containers) : containers[k].name = ContainerName

\* time.Sleep is called before every attempt but the one with i = 0.
SleepsAlways(i) == 1

\* Lines 97-100: the calls of time.Sleep(retryInterval) in the attempt
\* with loop counter i.
Sleeps(i) == IF i > 0 THEN 1 ELSE 0

\* initContainerLimits has not been called.  tries is history: what each
\* attempt so far has met; sleeps is history: the calls of time.Sleep.
NotCalled == [state |-> "idle", i |-> 0, lastErr |-> "", sleeps |-> 0,
              tries |-> <<>>, limits |-> NoLimits, err |-> ""]

(***************************************************************************)
(* The environment and NewConfig.  A value of the environment is a string, *)
(* here a sequence of at most MaxValueLen characters; a variable is a      *)
(* record with the field set, as os.LookupEnv reports it, and its value.   *)
(***************************************************************************)

MaxValueLen == 2
Chars == {"5", "x"}
Digits == {"5"}
EnvValues == UNION {[1..n -> Chars] : n \in 0..MaxValueLen}
EnvVars == [set : {TRUE}, value : EnvValues] \cup {[set |-> FALSE, value |-> <<>>]}

\* The variables NewConfig reads with getEnvAsFloat and, for HTTP_PORT, with
\* getEnvWithDefault.
FloatKeys == {"RESOURCE_THRESHOLD_MEMORY_PERCENT", "RESOURCE_THRESHOLD_CPU_PERCENT",
              "MINIMUM_PODS_TO_KEEP_PERCENT"}
StringKeys == {"HTTP_PORT"}

\* The default of HTTP_PORT, "8333".
DefaultPort == <<"8", "3", "3", "3">>

\* The number a decimal digit stands for.
DigitValue(c) == IF c = "5" THEN 5 ELSE 0

\* strconv.ParseFloat(value, 64) for the strings of EnvValues: err is nil
\* exactly for a non-empty string of digits, and the number is its decimal
\* value.
ParseOK(value) == Len(value) > 0 /\ \A i \in 1..Len(value) : value[i] \in Digits

RECURSIVE ParseValue(_)
ParseValue(value) ==
  IF Len(value) = 0 THEN 0
  ELSE 10 * ParseValue(SubSeq(value, 1, Len(value) - 1))
         + DigitValue(value[Len(value)])

\* getEnvWithDefault treating an empty value as an unset variable.
getEnvWithDefaultNonEmpty(key, defaultValue) ==
  IF conf.env[key].set /\ conf.env[key].value # <<>> THEN conf.env[key].value
  ELSE defaultValue

\* getEnvWithDefault, lines 313-318.
getEnvWithDefault(key, defaultValue) ==
  IF conf.env[key].set THEN conf.env[key].value ELSE defaultValue

\* getEnvAsFloat returning the zero number of a failed ParseFloat.
getEnvAsFloatUnchecked(key, defaultValue) ==
  IF conf.env[key].set
  THEN (IF ParseOK(conf.env[key].value) THEN ParseValue(conf.env[key].value) ELSE 0)
  ELSE defaultValue

\* getEnvAsFloat, lines 321-328.
getEnvAsFloat(key, defaultValue) ==
  IF conf.env[key].set /\ ParseOK(conf.env[key].value)
  THEN ParseValue(conf.env[key].value)
  ELSE defaultValue

\* No Config yet.
NoConfig == [loaded |-> FALSE,
             ResourceThresholdMemoryPercent |-> 0,
             ResourceThresholdCPUPercent |-> 0,
             MinimumPodsToKeepPercent |-> 0,
             HttpPort |-> <<>>]

\* An empty environment, NewConfig not called.
Unconfigured ==
  [env |-> [k \in FloatKeys \cup StringKeys |-> [set |-> FALSE, value |-> <<>>]],
   cfg |-> NoConfig]

\* The lock of an earlier process is found at program start.
LoadedLocked ==
  /\ shouldRandomize = FALSE
  /\ resourceOverLoaded = FALSE
  /\ pc = [p \in Procs |-> "idle"]
  /\ resourceMetrics = [p \in Procs |-> NoMetrics]
  /\ status = [p \in Procs |-> ""]
  /\ statusCode = [p \in Procs |-> 0]
  /\ randomValue = [p \in Procs |-> NoDraw]
  /\ flagBefore = FALSE
  /\ lastAnswer = "none"
  /\ episode = "none"
  /\ metricsAnswer = 0
  /\ sidecars = [s \in Fleet |-> Unprobed]
  /\ details = [p \in Procs |-> NoDetails]
  /\ minimumPodsToKeep = MinimumPodsToKeepPercent
  /\ limitsInit = NotCalled
  /\ queried = [p \in Procs |-> {}]

\* The package variables at program start; no goroutine serves a request.
Loaded ==
  /\ shouldRandomize = TRUE
  /\ resourceOverLoaded = FALSE
  /\ pc = [p \in Procs |-> "idle"]
  /\ resourceMetrics = [p \in Procs |-> NoMetrics]
  /\ status = [p \in Procs |-> ""]
  /\ statusCode = [p \in Procs |-> 0]
  /\ randomValue = [p \in Procs |-> NoDraw]
  /\ flagBefore = TRUE
  /\ lastAnswer = "none"
  /\ episode = "none"
  /\ metricsAnswer = 0
  /\ sidecars = [s \in Fleet |-> Unprobed]
  /\ details = [p \in Procs |-> NoDetails]
  /\ minimumPodsToKeep = MinimumPodsToKeepPercent
  /\ limitsInit = NotCalled
  /\ queried = [p \in Procs |-> {}]

\* main has loaded its configuration and calls k8s.NewClient.
Init ==
  /\ client = [phase |-> "config", attempts |-> 0, lastErr |-> "", limits |-> FALSE]
  /\ Loaded
  /\ calc = NoCalc
  /\ conf = Unconfigured

\* NewClient lines 30-65: the cluster configuration or one of the two
\* clients cannot be built; NewClient returns the error and main exits.
ClientConfigFails ==
  /\ client.phase = "config"
  /\ client' = [client EXCEPT !.phase = "exited"]
  /\ UNCHANGED <<shouldRandomize, resourceOverLoaded, pc, resourceMetrics, status,
                 statusCode, randomValue, flagBefore, lastAnswer, episode, metricsAnswer,
                 sidecars, calc, details, conf,
                 minimumPodsToKeep, limitsInit, queried>>

\* NewClient lines 67-74: the clients are built, initContainerLimits starts.
ClientBuilt ==
  /\ client.phase = "config"
  /\ client' = [client EXCEPT !.phase = "limits"]
  /\ UNCHANGED <<shouldRandomize, resourceOverLoaded, pc, resourceMetrics, status,
                 statusCode, randomValue, flagBefore, lastAnswer, episode, metricsAnswer,
                 sidecars, calc, details, conf,
                 minimumPodsToKeep, limitsInit, queried>>

\* initContainerLimits lines 96-107: the Deployment query of this attempt
\* fails.
AttemptGetFails ==
  /\ client.phase = "limits"
  /\ client.attempts < maxRetries
  /\ client' = [client EXCEPT !.attempts = @ + 1, !.lastErr = "GetDeployment"]
  /\ UNCHANGED <<shouldRandomize, resourceOverLoaded, pc, resourceMetrics, status,
                 statusCode, randomValue, flagBefore, lastAnswer, episode, metricsAnswer,
                 sidecars, calc, details, conf,
                 minimumPodsToKeep, limitsInit, queried>>

\* initContainerLimits lines 110-131: the Deployment is read and the loop
\* over its containers ends without a return, because the named container
\* is not there or because its limits are <= 0 (lines 116-120, whose
\* continue goes on with the next container); line 130 then sets lastErr.
AttemptNoLimits ==
  /\ client.phase = "limits"
  /\ client.attempts < maxRetries
  /\ client' = [client EXCEPT !.attempts = @ + 1, !.lastErr = "ContainerNotFound"]
  /\ UNCHANGED <<shouldRandomize, resourceOverLoaded, pc, resourceMetrics, status,
                 statusCode, randomValue, flagBefore, lastAnswer, episode, metricsAnswer,
                 sidecars, calc, details, conf,
                 minimumPodsToKeep, limitsInit, queried>>

\* NewClient returns the client without storing the limits.
AttemptSucceedsNoLimits ==
  /\ client.phase = "limits"
  /\ client.attempts < maxRetries
  /\ client' = [phase |-> "checking", attempts |-> 0, lastErr |-> "",
                limits |-> FALSE]
  /\ UNCHANGED <<shouldRandomize, resourceOverLoaded, pc, resourceMetrics, status,
                 statusCode, randomValue, flagBefore, lastAnswer, episode, metricsAnswer,
                 sidecars, calc, details, conf,
                 minimumPodsToKeep, limitsInit, queried>>

\* initContainerLimits lines 110-126 and NewClient lines 75-80: the named
\* container has CPU and memory limits > 0, they are stored in
\* Client.ContainerLimits and NewClient returns the client; the loop counter
\* and lastErr are locals of initContainerLimits and end with it.
AttemptSucceeds ==
  /\ client.phase = "limits"
  /\ client.attempts < maxRetries
  /\ client' = [phase |-> "checking", attempts |-> 0, lastErr |-> "",
                limits |-> TRUE]
  /\ UNCHANGED <<shouldRandomize, resourceOverLoaded, pc, resourceMetrics, status,
                 statusCode, randomValue, flagBefore, lastAnswer, episode, metricsAnswer,
                 sidecars, calc, details, conf,
                 minimumPodsToKeep, limitsInit, queried>>

\* RetriesExhausted with the error of NewClient ignored by main: the server
\* starts with a Client that has no limits.
RetriesExhaustedServes ==
  /\ client.phase = "limits"
  /\ client.attempts = maxRetries
  /\ client' = [client EXCEPT !.phase = "serving"]
  /\ UNCHANGED <<shouldRandomize, resourceOverLoaded, pc, resourceMetrics, status,
                 statusCode, randomValue, flagBefore, lastAnswer, episode, metricsAnswer,
                 sidecars, calc, details, conf,
                 minimumPodsToKeep, limitsInit, queried>>

\* initContainerLimits line 135, NewClient lines 75-77 and main lines
\* 101-104: every attempt has failed, logger.Fatal ends the process.
RetriesExhausted ==
  /\ client.phase = "limits"
  /\ client.attempts = maxRetries
  /\ client' = [client EXCEPT !.phase = "exited"]
  /\ UNCHANGED <<shouldRandomize, resourceOverLoaded, pc, resourceMetrics, status,
                 statusCode, randomValue, flagBefore, lastAnswer, episode, metricsAnswer,
                 sidecars, calc, details, conf,
                 minimumPodsToKeep, limitsInit, queried>>

\* main lines 108-111: metrics.k8s.io does not answer, logger.Fatal.
MetricsAPIUnavailable ==
  /\ client.phase = "checking"
  /\ client' = [client EXCEPT !.phase = "exited"]
  /\ UNCHANGED <<shouldRandomize, resourceOverLoaded, pc, resourceMetrics, status,
                 statusCode, randomValue, flagBefore, lastAnswer, episode, metricsAnswer,
                 sidecars, calc, details, conf,
                 minimumPodsToKeep, limitsInit, queried>>

\* main lines 108-138: the handlers are built and the server listens.
StartServer ==
  /\ client.phase = "checking"
  /\ client' = [client EXCEPT !.phase = "serving"]
  /\ UNCHANGED <<shouldRandomize, resourceOverLoaded, pc, resourceMetrics, status,
                 statusCode, randomValue, flagBefore, lastAnswer, episode, metricsAnswer,
                 sidecars, calc, details, conf,
                 minimumPodsToKeep, limitsInit, queried>>

\* main up to ListenAndServe.
Startup ==
  \/ ClientConfigFails
  \/ ClientBuilt
  \/ AttemptGetFails
  \/ AttemptNoLimits
  \/ AttemptSucceeds
  \/ RetriesExhausted
  \/ MetricsAPIUnavailable
  \/ StartServer

\* The collection goes on without the limits.
CollectIgnoresLimits(p) ==
  /\ pc[p] = "idle"
  /\ client.phase = "serving"
  /\ ~client.limits
  /\ status' = [status EXCEPT ![p] = "HEALTHY"]
  /\ statusCode' = [statusCode EXCEPT ![p] = StatusOK]
  /\ pc' = [pc EXCEPT ![p] = "collected"]
  /\ UNCHANGED <<client, shouldRandomize, resourceOverLoaded, resourceMetrics,
                 randomValue, flagBefore, lastAnswer, episode, metricsAnswer,
                 sidecars, calc, details, conf,
                 minimumPodsToKeep, limitsInit, queried>>

\* The limits are looked at after the three queries, and the snapshot made
\* of their answers is left to the handler with the error.
CollectFailsLate(p) ==
  /\ pc[p] = "idle"
  /\ client.phase = "serving"
  /\ ~client.limits
  /\ statusCode' = [statusCode EXCEPT ![p] = StatusServiceUnavailable]
  /\ resourceMetrics' = [resourceMetrics EXCEPT ![p] =
                           [NoMetrics EXCEPT !.DeploymentReplicas = 10,
                                             !.DeploymentAvailableReplicas = 5]]
  /\ queried' = [queried EXCEPT ![p] = Queries]
  /\ pc' = [pc EXCEPT ![p] = "failed"]
  /\ UNCHANGED <<client, shouldRandomize, resourceOverLoaded, status,
                 randomValue, flagBefore, lastAnswer, episode, metricsAnswer,
                 sidecars, calc, details, conf,
                 minimumPodsToKeep, limitsInit>>

\* Lines 54-60, 190-208 and GetContainerLimits: the Deployment has been
\* queried, Client.ContainerLimits is nil, collectResourceMetrics returns
\* nil and the error, and the handler answers 503 before it declares status
\* and statusCode.
CollectFails(p) ==
  /\ pc[p] = "idle"
  /\ client.phase = "serving"
  /\ ~client.limits
  /\ statusCode' = [statusCode EXCEPT ![p] = StatusServiceUnavailable]
  /\ queried' = [queried EXCEPT ![p] = {"deployment"}]
  /\ pc' = [pc EXCEPT ![p] = "failed"]
  /\ UNCHANGED <<client, shouldRandomize, resourceOverLoaded, resourceMetrics, status,
                 randomValue, flagBefore, lastAnswer, episode, metricsAnswer,
                 sidecars, calc, details, conf,
                 minimumPodsToKeep, limitsInit>>

\* collectResourceMetrics, lines 54 and 179-244, and the locals of lines 82-84.
Collect(p) ==
  /\ pc[p] = "idle"
  /\ client.phase = "serving"
  /\ client.limits
  /\ \E d \in DeploymentInfos, u \in PodUsages, ready \in BOOLEAN,
        failed \in Failures :
       /\ failed # {} => <<d, u, ready>> = OtherAnswers
       /\ resourceMetrics' = [resourceMetrics EXCEPT ![p] = Snapshot(d, u, ready, failed)]
  /\ status' = [status EXCEPT ![p] = "HEALTHY"]
  /\ statusCode' = [statusCode EXCEPT ![p] = StatusOK]
  /\ randomValue' = [randomValue EXCEPT ![p] = NoDraw]
  /\ flagBefore' = shouldRandomize
  /\ details' = [details EXCEPT ![p] = Details(resourceMetrics'[p])]
  /\ episode' = lastAnswer
  /\ queried' = [queried EXCEPT ![p] = Queries]
  /\ pc' = [pc EXCEPT ![p] = "collected"]
  /\ UNCHANGED <<client, shouldRandomize, resourceOverLoaded, lastAnswer, metricsAnswer,
                 sidecars, calc, conf,
                 minimumPodsToKeep, limitsInit>>

\* The not-ready answer clears the lock.
NotReadyResets(p) ==
  /\ pc[p] = "collected"
  /\ ~resourceMetrics[p].ContainerReady
  /\ shouldRandomize' = TRUE
  /\ status' = [status EXCEPT ![p] = "NOT_READY"]
  /\ pc' = [pc EXCEPT ![p] = "done"]
  /\ lastAnswer' = Answered(p, statusCode[p])
  /\ UNCHANGED <<client, resourceOverLoaded, resourceMetrics,
                 statusCode, randomValue, flagBefore, episode, metricsAnswer,
                 sidecars, calc, details, conf,
                 minimumPodsToKeep, limitsInit, queried>>

\* A container that is not ready is answered with a rejection.
NotReadyRejects(p) ==
  /\ pc[p] = "collected"
  /\ ~resourceMetrics[p].ContainerReady
  /\ status' = [status EXCEPT ![p] = "NOT_READY"]
  /\ statusCode' = [statusCode EXCEPT ![p] = StatusBadRequest]
  /\ pc' = [pc EXCEPT ![p] = "done"]
  /\ lastAnswer' = Answered(p, StatusBadRequest)
  /\ UNCHANGED <<client, shouldRandomize, resourceOverLoaded, resourceMetrics,
                 randomValue, flagBefore, episode, metricsAnswer, sidecars, calc,
                 details, conf,
                 minimumPodsToKeep, limitsInit, queried>>

\* Lines 87-98.
NotReady(p) ==
  /\ pc[p] = "collected"
  /\ ~resourceMetrics[p].ContainerReady
  /\ status' = [status EXCEPT ![p] = "NOT_READY"]
  /\ pc' = [pc EXCEPT ![p] = "done"]
  /\ lastAnswer' = Answered(p, statusCode[p])
  /\ UNCHANGED <<client, shouldRandomize, resourceOverLoaded, resourceMetrics,
                 statusCode, randomValue, flagBefore, episode, metricsAnswer,
                 sidecars, calc, details, conf,
                 minimumPodsToKeep, limitsInit, queried>>

\* The shortage answer gives up the lock when the usage is not overloaded.
PodShortageResets(p) ==
  /\ pc[p] = "collected"
  /\ resourceMetrics[p].ContainerReady
  /\ Shortage(resourceMetrics[p])
  /\ shouldRandomize' = (shouldRandomize \/ ~Overloaded(resourceMetrics[p]))
  /\ status' = [status EXCEPT ![p] = "POD_SHORTAGE"]
  /\ pc' = [pc EXCEPT ![p] = "done"]
  /\ lastAnswer' = Answered(p, statusCode[p])
  /\ UNCHANGED <<client, resourceOverLoaded, resourceMetrics,
                 statusCode, randomValue, flagBefore, episode, metricsAnswer,
                 sidecars, calc, details, conf,
                 minimumPodsToKeep, limitsInit, queried>>

\* Lines 101-115.
PodShortage(p) ==
  /\ pc[p] = "collected"
  /\ resourceMetrics[p].ContainerReady
  /\ Shortage(resourceMetrics[p])
  /\ status' = [status EXCEPT ![p] = "POD_SHORTAGE"]
  /\ pc' = [pc EXCEPT ![p] = "done"]
  /\ lastAnswer' = Answered(p, statusCode[p])
  /\ UNCHANGED <<client, shouldRandomize, resourceOverLoaded, resourceMetrics,
                 statusCode, randomValue, flagBefore, episode, metricsAnswer,
                 sidecars, calc, details, conf,
                 minimumPodsToKeep, limitsInit, queried>>

\* The comparison of lines 118-123 fails: the handler ends without an
\* answer.
ComputeOverloadPanics(p) ==
  /\ pc[p] = "collected"
  /\ resourceMetrics[p].ContainerReady
  /\ ~Shortage(resourceMetrics[p])
  /\ pc' = [pc EXCEPT ![p] = "panicked"]
  /\ UNCHANGED <<client, shouldRandomize, resourceOverLoaded, resourceMetrics, status,
                 statusCode, randomValue, flagBefore, lastAnswer, episode,
                 metricsAnswer, sidecars, calc, details, conf,
                 minimumPodsToKeep, limitsInit, queried>>

\* Lines 118-123: the write of the package variable.
ComputeOverload(p) ==
  /\ pc[p] = "collected"
  /\ resourceMetrics[p].ContainerReady
  /\ ~Shortage(resourceMetrics[p])
  /\ resourceOverLoaded' = Overloaded(resourceMetrics[p])
  /\ pc' = [pc EXCEPT ![p] = "test"]
  /\ UNCHANGED <<client, shouldRandomize, resourceMetrics, status, statusCode,
                 randomValue, flagBefore, lastAnswer, episode, metricsAnswer,
                 sidecars, calc, details, conf,
                 minimumPodsToKeep, limitsInit, queried>>

\* Line 126, the read of the package variable, taken to the overload branch.
TestOverloaded(p) ==
  /\ pc[p] = "test"
  /\ resourceOverLoaded
  /\ pc' = [pc EXCEPT ![p] = "rand"]
  /\ UNCHANGED <<client, shouldRandomize, resourceOverLoaded, resourceMetrics, status,
                 statusCode, randomValue, flagBefore, lastAnswer, episode, metricsAnswer,
                 sidecars, calc, details, conf,
                 minimumPodsToKeep, limitsInit, queried>>

\* Line 126 read as false, line 161.
TestNotOverloaded(p) ==
  /\ pc[p] = "test"
  /\ ~resourceOverLoaded
  /\ pc' = [pc EXCEPT ![p] = "reset"]
  /\ UNCHANGED <<client, shouldRandomize, resourceOverLoaded, resourceMetrics, status,
                 statusCode, randomValue, flagBefore, lastAnswer, episode, metricsAnswer,
                 sidecars, calc, details, conf,
                 minimumPodsToKeep, limitsInit, queried>>

\* Line 128 read as true.
TestRandomize(p) ==
  /\ pc[p] = "rand"
  /\ shouldRandomize
  /\ pc' = [pc EXCEPT ![p] = "draw"]
  /\ UNCHANGED <<client, shouldRandomize, resourceOverLoaded, resourceMetrics, status,
                 statusCode, randomValue, flagBefore, lastAnswer, episode, metricsAnswer,
                 sidecars, calc, details, conf,
                 minimumPodsToKeep, limitsInit, queried>>

\* The lock is ignored: a locked request goes on to draw.
LockedRejectDrawsAgain(p) ==
  /\ pc[p] = "rand"
  /\ ~shouldRandomize
  /\ pc' = [pc EXCEPT ![p] = "draw"]
  /\ UNCHANGED <<client, shouldRandomize, resourceOverLoaded, resourceMetrics, status,
                 statusCode, randomValue, flagBefore, lastAnswer, episode, metricsAnswer,
                 sidecars, calc, details, conf,
                 minimumPodsToKeep, limitsInit, queried>>

\* The lock lasts for one further request only.
LockedRejectUnlocks(p) ==
  /\ pc[p] = "rand"
  /\ ~shouldRandomize
  /\ shouldRandomize' = TRUE
  /\ status' = [status EXCEPT ![p] = "RESOURCE_EXHAUSTED"]
  /\ statusCode' = [statusCode EXCEPT ![p] = StatusBadRequest]
  /\ pc' = [pc EXCEPT ![p] = "done"]
  /\ lastAnswer' = Answered(p, StatusBadRequest)
  /\ UNCHANGED <<client, resourceOverLoaded, resourceMetrics,
                 randomValue, flagBefore, episode, metricsAnswer, sidecars, calc,
                 details, conf,
                 minimumPodsToKeep, limitsInit, queried>>

\* The locked rejection is answered with the code of a collection failure.
LockedRejectUnavailable(p) ==
  /\ pc[p] = "rand"
  /\ ~shouldRandomize
  /\ status' = [status EXCEPT ![p] = "RESOURCE_EXHAUSTED"]
  /\ statusCode' = [statusCode EXCEPT ![p] = StatusServiceUnavailable]
  /\ pc' = [pc EXCEPT ![p] = "done"]
  /\ lastAnswer' = Answered(p, StatusServiceUnavailable)
  /\ UNCHANGED <<client, shouldRandomize, resourceOverLoaded, resourceMetrics,
                 randomValue, flagBefore, episode, metricsAnswer, sidecars, calc,
                 details, conf,
                 minimumPodsToKeep, limitsInit, queried>>

\* Line 128 read as false, lines 152-160 and 170-175.
LockedReject(p) ==
  /\ pc[p] = "rand"
  /\ ~shouldRandomize
  /\ status' = [status EXCEPT ![p] = "RESOURCE_EXHAUSTED"]
  /\ statusCode' = [statusCode EXCEPT ![p] = StatusBadRequest]
  /\ pc' = [pc EXCEPT ![p] = "done"]
  /\ lastAnswer' = Answered(p, StatusBadRequest)
  /\ UNCHANGED <<client, shouldRandomize, resourceOverLoaded, resourceMetrics,
                 randomValue, flagBefore, episode, metricsAnswer, sidecars, calc,
                 details, conf,
                 minimumPodsToKeep, limitsInit, queried>>

\* The rejecting draw forgets to lock.
DrawRejectNoLock(p) ==
  /\ pc[p] = "draw"
  /\ \E r \in RandomValues :
       /\ DrawRejects(r)
       /\ randomValue' = [randomValue EXCEPT ![p] = r]
  /\ status' = [status EXCEPT ![p] = "RESOURCE_EXHAUSTED"]
  /\ statusCode' = [statusCode EXCEPT ![p] = StatusBadRequest]
  /\ pc' = [pc EXCEPT ![p] = "done"]
  /\ lastAnswer' = Answered(p, StatusBadRequest)
  /\ UNCHANGED <<client, shouldRandomize, resourceOverLoaded, resourceMetrics,
                 flagBefore, episode, metricsAnswer, sidecars, calc, details,
                 conf,
                 minimumPodsToKeep, limitsInit, queried>>

\* Lines 130-143 and 170-175: a draw above the threshold.
DrawReject(p) ==
  /\ pc[p] = "draw"
  /\ \E r \in RandomValues :
       /\ DrawRejects(r)
       /\ randomValue' = [randomValue EXCEPT ![p] = r]
  /\ shouldRandomize' = FALSE
  /\ status' = [status EXCEPT ![p] = "RESOURCE_EXHAUSTED"]
  /\ statusCode' = [statusCode EXCEPT ![p] = StatusBadRequest]
  /\ pc' = [pc EXCEPT ![p] = "done"]
  /\ lastAnswer' = Answered(p, StatusBadRequest)
  /\ UNCHANGED <<client, resourceOverLoaded, resourceMetrics, flagBefore, episode, metricsAnswer,
                 sidecars, calc, details, conf,
                 minimumPodsToKeep, limitsInit, queried>>

\* DrawKeep as in the handler without backoff: the overloaded request is
\* rejected whatever is drawn.
DrawKeepRejects(p) ==
  /\ pc[p] = "draw"
  /\ \E r \in RandomValues :
       /\ ~DrawRejects(r)
       /\ randomValue' = [randomValue EXCEPT ![p] = r]
  /\ status' = [status EXCEPT ![p] = "RESOURCE_EXHAUSTED"]
  /\ statusCode' = [statusCode EXCEPT ![p] = StatusBadRequest]
  /\ pc' = [pc EXCEPT ![p] = "done"]
  /\ lastAnswer' = Answered(p, StatusBadRequest)
  /\ UNCHANGED <<client, shouldRandomize, resourceOverLoaded, resourceMetrics,
                 flagBefore, episode, metricsAnswer, sidecars, calc, details,
                 conf,
                 minimumPodsToKeep, limitsInit, queried>>

\* Lines 130-133, 144-151 and 170-175: a draw at or below the threshold.
DrawKeep(p) ==
  /\ pc[p] = "draw"
  /\ \E r \in RandomValues :
       /\ ~DrawRejects(r)
       /\ randomValue' = [randomValue EXCEPT ![p] = r]
  /\ status' = [status EXCEPT ![p] = "RESOURCE_OVERLOADED_BUT_KEEPING"]
  /\ pc' = [pc EXCEPT ![p] = "done"]
  /\ lastAnswer' = Answered(p, statusCode[p])
  /\ UNCHANGED <<client, shouldRandomize, resourceOverLoaded, resourceMetrics,
                 statusCode, flagBefore, episode, metricsAnswer, sidecars, calc,
                 details, conf,
                 minimumPodsToKeep, limitsInit, queried>>

\* The healthy answer leaves the flag alone.
ResetForgets(p) ==
  /\ pc[p] = "reset"
  /\ pc' = [pc EXCEPT ![p] = "done"]
  /\ lastAnswer' = Answered(p, statusCode[p])
  /\ UNCHANGED <<client, shouldRandomize, resourceOverLoaded, resourceMetrics, status,
                 statusCode, randomValue, flagBefore, episode, metricsAnswer,
                 sidecars, calc, details, conf,
                 minimumPodsToKeep, limitsInit, queried>>

\* Lines 161-175.
Reset(p) ==
  /\ pc[p] = "reset"
  /\ shouldRandomize' = TRUE
  /\ pc' = [pc EXCEPT ![p] = "done"]
  /\ lastAnswer' = Answered(p, statusCode[p])
  /\ UNCHANGED <<client, resourceOverLoaded, resourceMetrics, status, statusCode,
                 randomValue, flagBefore, episode, metricsAnswer, sidecars, calc,
                 details, conf,
                 minimumPodsToKeep, limitsInit, queried>>

\* MetricsHandler.ServeHTTP also runs the admission decision's reset.
ServeMetricsResets ==
  /\ client.phase = "serving"
  /\ client.limits
  /\ metricsAnswer = 0
  /\ metricsAnswer' = StatusOK
  /\ shouldRandomize' = TRUE
  /\ UNCHANGED <<client, resourceOverLoaded, pc, resourceMetrics, status,
                 statusCode, randomValue, flagBefore, lastAnswer, episode,
                 sidecars, calc, details, conf,
                 minimumPodsToKeep, limitsInit, queried>>

\* MetricsHandler.ServeHTTP lines 41-62: the snapshot is collected by
\* collectResourceMetrics and encoded into the response, with the status
\* code 200 of the first write.  The handler reads and writes no package
\* variable; its snapshot is a local.
ServeMetrics ==
  /\ client.phase = "serving"
  /\ client.limits
  /\ metricsAnswer = 0
  /\ metricsAnswer' = StatusOK
  /\ UNCHANGED <<client, shouldRandomize, resourceOverLoaded, pc, resourceMetrics,
                 status, statusCode, randomValue, flagBefore, lastAnswer, episode,
                 sidecars, calc, details, conf,
                 minimumPodsToKeep, limitsInit, queried>>

\* MetricsHandler.ServeHTTP lines 49-55: the collection fails, 503.
ServeMetricsFails ==
  /\ client.phase = "serving"
  /\ ~client.limits
  /\ metricsAnswer = 0
  /\ metricsAnswer' = StatusServiceUnavailable
  /\ UNCHANGED <<client, shouldRandomize, resourceOverLoaded, pc, resourceMetrics,
                 status, statusCode, randomValue, flagBefore, lastAnswer, episode,
                 sidecars, calc, details, conf,
                 minimumPodsToKeep, limitsInit, queried>>

\* MetricsHandler.ServeHTTP has returned.
MetricsReturn ==
  /\ metricsAnswer # 0
  /\ metricsAnswer' = 0
  /\ UNCHANGED <<client, shouldRandomize, resourceOverLoaded, pc, resourceMetrics,
                 status, statusCode, randomValue, flagBefore, lastAnswer, episode,
                 sidecars, calc, details, conf,
                 minimumPodsToKeep, limitsInit, queried>>

\* ServeHTTP has returned; the goroutine's locals are gone.
Finish(p) ==
  /\ pc[p] \in {"done", "failed"}
  /\ pc' = [pc EXCEPT ![p] = "idle"]
  /\ resourceMetrics' = [resourceMetrics EXCEPT ![p] = NoMetrics]
  /\ status' = [status EXCEPT ![p] = ""]
  /\ statusCode' = [statusCode EXCEPT ![p] = 0]
  /\ randomValue' = [randomValue EXCEPT ![p] = NoDraw]
  /\ details' = [details EXCEPT ![p] = NoDetails]
  /\ queried' = [queried EXCEPT ![p] = {}]
  /\ UNCHANGED <<client, shouldRandomize, resourceOverLoaded, flagBefore, lastAnswer,
                 episode, metricsAnswer, sidecars, calc, conf,
                 minimumPodsToKeep, limitsInit>>

\* One step of the handler after the snapshot is collected.
Step(p) ==
  \/ NotReady(p)
  \/ PodShortage(p)
  \/ ComputeOverload(p)
  \/ TestOverloaded(p)
  \/ TestNotOverloaded(p)
  \/ TestRandomize(p)
  \/ LockedReject(p)
  \/ DrawReject(p)
  \/ DrawKeep(p)
  \/ Reset(p)
  \/ Finish(p)

\* Requests served by concurrent goroutines.
Next ==
  \/ Startup
  \/ ServeMetrics
  \/ MetricsReturn
  \/ \E p \in Procs : Collect(p) \/ Step(p)

Spec == Init /\ [][Next]_vars

\* A request is being served by goroutine p.
InFlight(p) == pc[p] # "idle"

\* Requests served one after the other: a request is received only when
\* no other one is being served.
SeqNext ==
  \/ Startup
  \/ ServeMetrics
  \/ MetricsReturn
  \/ \E p \in Procs :
       \/ (\A q \in Procs : ~InFlight(q)) /\ Collect(p)
       \/ Step(p)

SeqSpec == Init /\ [][SeqNext]_vars

\* The handler behind a server, whatever the Client it was given by
\* NewHealthHandler: Client.ContainerLimits is an exported field and nil
\* unless NewClient has set it.
HandlerInit ==
  /\ client \in [phase : {"serving"}, attempts : {0}, lastErr : {""},
                  limits : BOOLEAN]
  /\ Loaded
  /\ calc = NoCalc
  /\ conf = Unconfigured

HandlerNext ==
  \/ ServeMetrics
  \/ ServeMetricsFails
  \/ MetricsReturn
  \/ \E p \in Procs : CollectFails(p) \/ Collect(p) \/ Step(p)

HandlerSpec == HandlerInit /\ [][HandlerNext]_vars

\* The goroutine of a request that has been received keeps being scheduled:
\* ServeHTTP has no loop and waits for nothing once collectResourceMetrics,
\* whose queries run under a context of 5 seconds, has returned.
HandlerLiveSpec == HandlerSpec /\ \A p \in Procs : WF_vars(Step(p))

(***************************************************************************)
(* One call of initContainerLimits, attempt by attempt.                    *)
(***************************************************************************)

\* NewClient line 74: the call; lines 92-96, the loop starts with i = 0 and
\* lastErr nil.
CallInitContainerLimits ==
  /\ limitsInit.state = "idle"
  /\ limitsInit' = [limitsInit EXCEPT !.state = "loop"]
  /\ UNCHANGED <<client, shouldRandomize, resourceOverLoaded, pc, resourceMetrics,
                 status, statusCode, randomValue, flagBefore, lastAnswer, episode,
                 metricsAnswer, sidecars, calc, details, conf, minimumPodsToKeep, queried>>

\* Lines 96-107: the Deployment query of this attempt returns an error.
LimitsGetFails ==
  /\ limitsInit.state = "loop"
  /\ limitsInit.i < maxRetries
  /\ limitsInit' = [limitsInit EXCEPT !.i = @ + 1,
                                      !.sleeps = @ + Sleeps(limitsInit.i),
                                      !.lastErr = "GetDeployment",
                                      !.tries = Append(@, "error")]
  /\ UNCHANGED <<client, shouldRandomize, resourceOverLoaded, pc, resourceMetrics,
                 status, statusCode, randomValue, flagBefore, lastAnswer, episode,
                 metricsAnswer, sidecars, calc, details, conf, minimumPodsToKeep, queried>>

\* Lines 96-102 and 110-126: the Deployment is read and has the named
\* container with valid limits; the function returns them.
LimitsFound ==
  /\ limitsInit.state = "loop"
  /\ limitsInit.i < maxRetries
  /\ \E containers \in PodSpecs :
       LET scan == ScanContainers(containers, 1, limitsInit.lastErr) IN
         /\ scan.found
         /\ limitsInit' = [limitsInit EXCEPT !.state = "returned",
                                             !.sleeps = @ + Sleeps(limitsInit.i),
                                             !.limits = scan.limits,
                                             !.err = "",
                                             !.tries = Append(@, "found")]
  /\ UNCHANGED <<client, shouldRandomize, resourceOverLoaded, pc, resourceMetrics,
                 status, statusCode, randomValue, flagBefore, lastAnswer, episode,
                 metricsAnswer, sidecars, calc, details, conf, minimumPodsToKeep, queried>>

\* Lines 96-102 and 110-131: the Deployment is read and the loop over its
\* containers ends without a return; line 130 then assigns lastErr, also
\* when line 117 has assigned it in the loop.
LimitsNotFound ==
  /\ limitsInit.state = "loop"
  /\ limitsInit.i < maxRetries
  /\ \E containers \in PodSpecs :
       LET scan == ScanContainers(containers, 1, limitsInit.lastErr) IN
         /\ ~scan.found
         /\ limitsInit' = [limitsInit EXCEPT !.i = @ + 1,
                                             !.sleeps = @ + Sleeps(limitsInit.i),
                                             !.lastErr = "ContainerNotFound",
                                             !.tries = Append(@,
                                                IF HasContainer(containers)
                                                THEN "invalid" ELSE "missing")]
  /\ UNCHANGED <<client, shouldRandomize, resourceOverLoaded, pc, resourceMetrics,
                 status, statusCode, randomValue, flagBefore, lastAnswer, episode,
                 metricsAnswer, sidecars, calc, details, conf, minimumPodsToKeep, queried>>

\* Lines 96 and 134-135: i has reached maxRetries, the function returns nil
\* and an error made of lastErr.
LimitsGiveUp ==
  /\ limitsInit.state = "loop"
  /\ limitsInit.i >= maxRetries
  /\ limitsInit' = [limitsInit EXCEPT !.state = "returned",
                                      !.limits = NoLimits,
                                      !.err = limitsInit.lastErr]
  /\ UNCHANGED <<client, shouldRandomize, resourceOverLoaded, pc, resourceMetrics,
                 status, statusCode, randomValue, flagBefore, lastAnswer, episode,
                 metricsAnswer, sidecars, calc, details, conf, minimumPodsToKeep, queried>>

LimitsInit ==
  /\ client = [phase |-> "limits", attempts |-> 0, lastErr |-> "", limits |-> FALSE]
  /\ Loaded
  /\ calc = NoCalc
  /\ conf = Unconfigured

LimitsNext ==
  \/ CallInitContainerLimits
  \/ LimitsGetFails
  \/ LimitsFound
  \/ LimitsNotFound
  \/ LimitsGiveUp

LimitsSpec == LimitsInit /\ [][LimitsNext]_vars

\* Values of MINIMUM_PODS_TO_KEEP_PERCENT: the default and 100.
Minimums == {MinimumPodsToKeepPercent, 100}

\* The handler of a serving process whose Config has one of the values of
\* Minimums for MinimumPodsToKeepPercent.
ThresholdInit ==
  /\ client = [phase |-> "serving", attempts |-> 0, lastErr |-> "", limits |-> TRUE]
  /\ shouldRandomize = TRUE
  /\ resourceOverLoaded = FALSE
  /\ pc = [p \in Procs |-> "idle"]
  /\ resourceMetrics = [p \in Procs |-> NoMetrics]
  /\ status = [p \in Procs |-> ""]
  /\ statusCode = [p \in Procs |-> 0]
  /\ randomValue = [p \in Procs |-> NoDraw]
  /\ flagBefore = TRUE
  /\ lastAnswer = "none"
  /\ episode = "none"
  /\ metricsAnswer = 0
  /\ sidecars = [s \in Fleet |-> Unprobed]
  /\ details = [p \in Procs |-> NoDetails]
  /\ calc = NoCalc
  /\ conf = Unconfigured
  /\ minimumPodsToKeep \in Minimums
  /\ limitsInit = NotCalled
  /\ queried = [p \in Procs |-> {}]

\* /healthz requests served one after the other.
ThresholdNext ==
  \E p \in Procs :
    \/ (\A q \in Procs : ~InFlight(q)) /\ Collect(p)
    \/ Step(p)

ThresholdSpec == ThresholdInit /\ [][ThresholdNext]_vars

(***************************************************************************)
(* Shutdown, main lines 128-154.  The phase of the process goes from       *)
(* "serving" to "stopping" when the signal is received, and from there to  *)
(* "stopped" when server.Shutdown returns nil and main returns, or to      *)
(* "exited" when the context of Shutdown expires and logger.Fatal ends the *)
(* process.  Requests are received one at a time.                          *)
(***************************************************************************)

\* A handler is running: a /healthz or a /metrics request is in flight.
Active == (\E p \in Procs : pc[p] # "idle") \/ metricsAnswer # 0

\* The process runs: its goroutines take steps.
Running == client.phase \in {"serving", "stopping"}

\* Lines 140-148: the signal is received and server.Shutdown is called; it
\* closes the listeners, so no request is received from here on.
Signal ==
  /\ client.phase = "serving"
  /\ client' = [client EXCEPT !.phase = "stopping"]
  /\ UNCHANGED <<shouldRandomize, resourceOverLoaded, pc, resourceMetrics, status,
                 statusCode, randomValue, flagBefore, lastAnswer, episode,
                 metricsAnswer, sidecars, calc, details, conf,
                 minimumPodsToKeep, limitsInit, queried>>

\* ShutdownReturns without the wait for the connections to become idle.
ShutdownReturnsAtOnce ==
  /\ client.phase = "stopping"
  /\ client' = [client EXCEPT !.phase = "stopped"]
  /\ UNCHANGED <<shouldRandomize, resourceOverLoaded, pc, resourceMetrics, status,
                 statusCode, randomValue, flagBefore, lastAnswer, episode,
                 metricsAnswer, sidecars, calc, details, conf,
                 minimumPodsToKeep, limitsInit, queried>>

\* Lines 148-153: every connection is idle, Shutdown returns nil and main
\* returns.
ShutdownReturns ==
  /\ client.phase = "stopping"
  /\ ~Active
  /\ client' = [client EXCEPT !.phase = "stopped"]
  /\ UNCHANGED <<shouldRandomize, resourceOverLoaded, pc, resourceMetrics, status,
                 statusCode, randomValue, flagBefore, lastAnswer, episode,
                 metricsAnswer, sidecars, calc, details, conf,
                 minimumPodsToKeep, limitsInit, queried>>

\* Lines 145-150: the 5 seconds of the context pass while a handler is
\* still running; Shutdown returns the context's error and logger.Fatal
\* exits the process.
ShutdownTimesOut ==
  /\ client.phase = "stopping"
  /\ Active
  /\ client' = [client EXCEPT !.phase = "exited", !.lastErr = "Shutdown"]
  /\ UNCHANGED <<shouldRandomize, resourceOverLoaded, pc, resourceMetrics, status,
                 statusCode, randomValue, flagBefore, lastAnswer, episode,
                 metricsAnswer, sidecars, calc, details, conf,
                 minimumPodsToKeep, limitsInit, queried>>

ShutdownInit ==
  /\ client = [phase |-> "serving", attempts |-> 0, lastErr |-> "", limits |-> TRUE]
  /\ Loaded
  /\ calc = NoCalc
  /\ conf = Unconfigured

ShutdownNext ==
  \/ Signal
  \/ ShutdownReturns
  \/ ShutdownTimesOut
  \/ ServeMetrics
  \/ Running /\ MetricsReturn
  \/ \E p \in Procs :
       \/ (\A q \in Procs : ~InFlight(q)) /\ Collect(p)
       \/ Running /\ Step(p)

ShutdownSpec == ShutdownInit /\ [][ShutdownNext]_vars

(***************************************************************************)
(* NewConfig as a function of the environment.                             *)
(***************************************************************************)

\* NewConfig lines 359-370: the three thresholds and the port.
NewConfig ==
  /\ ~conf.cfg.loaded
  /\ conf' = [conf EXCEPT !.cfg =
       [loaded |-> TRUE,
        ResourceThresholdMemoryPercent |->
          getEnvAsFloat("RESOURCE_THRESHOLD_MEMORY_PERCENT",
                        ResourceThresholdMemoryPercent),
        ResourceThresholdCPUPercent |->
          getEnvAsFloat("RESOURCE_THRESHOLD_CPU_PERCENT", ResourceThresholdCPUPercent),
        MinimumPodsToKeepPercent |->
          getEnvAsFloat("MINIMUM_PODS_TO_KEEP_PERCENT", MinimumPodsToKeepPercent),
        HttpPort |-> getEnvWithDefault("HTTP_PORT", DefaultPort)]]
  /\ UNCHANGED <<client, shouldRandomize, resourceOverLoaded, pc, resourceMetrics,
                 status, statusCode, randomValue, flagBefore, lastAnswer, episode,
                 metricsAnswer, sidecars, calc, details,
                 minimumPodsToKeep, limitsInit, queried>>

ConfigInit ==
  /\ client = [phase |-> "config", attempts |-> 0, lastErr |-> "", limits |-> FALSE]
  /\ Loaded
  /\ calc = NoCalc
  /\ conf \in [env : [FloatKeys \cup StringKeys -> EnvVars], cfg : {NoConfig}]

ConfigNext == NewConfig

ConfigSpec == ConfigInit /\ [][ConfigNext]_vars

(***************************************************************************)
(* A fleet of sidecars.  Each sidecar is a process of its own: it has its  *)
(* own shouldRandomize and its own random source and exchanges nothing     *)
(* with the others.  Its probes are served one at a time, and each of them *)
(* collects FleetMetrics, so an evaluation is lines 126-160 of ServeHTTP.  *)
(***************************************************************************)

\* ProbeDraw with a draw that does not lock the sidecar.
ProbeDrawNoLock(s) ==
  /\ InEpisode(FleetMetrics)
  /\ sidecars[s].shouldRandomize
  /\ \E r \in RandomValues :
       sidecars' = [sidecars EXCEPT ![s] =
                      [shouldRandomize |-> TRUE,
                       statusCode |-> IF DrawRejects(r) THEN StatusBadRequest
                                                        ELSE StatusOK,
                       randomValue |-> r]]
  /\ UNCHANGED <<client, shouldRandomize, resourceOverLoaded, pc, resourceMetrics,
                 status, statusCode, randomValue, flagBefore, lastAnswer, episode,
                 metricsAnswer, calc, details, conf,
                 minimumPodsToKeep, limitsInit, queried>>

\* ProbeDraw deciding once: a sidecar that has accepted after a draw keeps
\* that answer and does not draw again.
ProbeDrawOnce(s) ==
  /\ InEpisode(FleetMetrics)
  /\ sidecars[s].shouldRandomize
  /\ \E r \in RandomValues :
       sidecars' = [sidecars EXCEPT ![s] =
                      IF sidecars[s].statusCode = StatusOK THEN sidecars[s]
                      ELSE IF DrawRejects(r)
                      THEN [shouldRandomize |-> FALSE,
                            statusCode |-> StatusBadRequest, randomValue |-> r]
                      ELSE [shouldRandomize |-> TRUE,
                            statusCode |-> StatusOK, randomValue |-> r]]
  /\ UNCHANGED <<client, shouldRandomize, resourceOverLoaded, pc, resourceMetrics,
                 status, statusCode, randomValue, flagBefore, lastAnswer, episode,
                 metricsAnswer, calc, details, conf,
                 minimumPodsToKeep, limitsInit, queried>>

\* Lines 128-151: the sidecar is UNLOCKED and draws; a draw above the
\* threshold rejects and locks, another one accepts and leaves it UNLOCKED.
ProbeDraw(s) ==
  /\ InEpisode(FleetMetrics)
  /\ sidecars[s].shouldRandomize
  /\ \E r \in RandomValues :
       sidecars' = [sidecars EXCEPT ![s] =
                      IF DrawRejects(r)
                      THEN [shouldRandomize |-> FALSE,
                            statusCode |-> StatusBadRequest, randomValue |-> r]
                      ELSE [shouldRandomize |-> TRUE,
                            statusCode |-> StatusOK, randomValue |-> r]]
  /\ UNCHANGED <<client, shouldRandomize, resourceOverLoaded, pc, resourceMetrics,
                 status, statusCode, randomValue, flagBefore, lastAnswer, episode,
                 metricsAnswer, calc, details, conf,
                 minimumPodsToKeep, limitsInit, queried>>

\* Lines 152-159: the sidecar is in LOCKED_REJECT and rejects without a draw.
ProbeLocked(s) ==
  /\ InEpisode(FleetMetrics)
  /\ ~sidecars[s].shouldRandomize
  /\ sidecars' = [sidecars EXCEPT ![s] =
                    [shouldRandomize |-> FALSE,
                     statusCode |-> StatusBadRequest, randomValue |-> NoDraw]]
  /\ UNCHANGED <<client, shouldRandomize, resourceOverLoaded, pc, resourceMetrics,
                 status, statusCode, randomValue, flagBefore, lastAnswer, episode,
                 metricsAnswer, calc, details, conf,
                 minimumPodsToKeep, limitsInit, queried>>

FleetInit ==
  /\ client = [phase |-> "serving", attempts |-> 0, lastErr |-> "", limits |-> TRUE]
  /\ Loaded
  /\ calc = NoCalc
  /\ conf = Unconfigured

FleetNext == \E s \in Fleet : ProbeDraw(s) \/ ProbeLocked(s)

FleetSpec == FleetInit /\ [][FleetNext]_vars

\* The probe of sidecar s draws a value above the threshold.
ProbeRejects(s) == ProbeDraw(s) /\ ~sidecars'[s].shouldRandomize

\* The overload episode does not end, every sidecar keeps being probed and
\* its random source is fair: a draw above the threshold that stays
\* possible is made at some time.
FleetLiveSpec ==
  /\ FleetSpec
  /\ \A s \in Fleet : WF_vars(ProbeRejects(s)) /\ WF_vars(ProbeLocked(s))

(***************************************************************************)
(* The ratio calculators as pure functions: a ResourceMetrics is drawn,    *)
(* and each calculator is applied to it once.                              *)
(***************************************************************************)

ApplyCPU ==
  /\ "cpu" \notin calc.applied
  /\ calc' = [calc EXCEPT !.cpu = calcCPUPercent(calc.m), !.applied = @ \cup {"cpu"}]
  /\ UNCHANGED <<client, shouldRandomize, resourceOverLoaded, pc, resourceMetrics,
                 status, statusCode, randomValue, flagBefore, lastAnswer, episode,
                 metricsAnswer, sidecars, details, conf,
                 minimumPodsToKeep, limitsInit, queried>>

ApplyMemory ==
  /\ "mem" \notin calc.applied
  /\ calc' = [calc EXCEPT !.mem = calcMemoryPercent(calc.m), !.applied = @ \cup {"mem"}]
  /\ UNCHANGED <<client, shouldRandomize, resourceOverLoaded, pc, resourceMetrics,
                 status, statusCode, randomValue, flagBefore, lastAnswer, episode,
                 metricsAnswer, sidecars, details, conf,
                 minimumPodsToKeep, limitsInit, queried>>

ApplyPods ==
  /\ "pods" \notin calc.applied
  /\ calc' = [calc EXCEPT !.pods = calcPodsRatio(calc.m), !.applied = @ \cup {"pods"}]
  /\ UNCHANGED <<client, shouldRandomize, resourceOverLoaded, pc, resourceMetrics,
                 status, statusCode, randomValue, flagBefore, lastAnswer, episode,
                 metricsAnswer, sidecars, details, conf,
                 minimumPodsToKeep, limitsInit, queried>>

CalcInit ==
  /\ client = [phase |-> "serving", attempts |-> 0, lastErr |-> "", limits |-> TRUE]
  /\ Loaded
  /\ \E cpu, mem, available \in Numerators :
       \E cpuLimit, memLimit, replicas \in Denominators :
         calc = [NoCalc EXCEPT !.m = CalcMetrics(cpu, cpuLimit, mem, memLimit,
                                                 available, replicas)]
  /\ conf = Unconfigured

CalcNext == ApplyCPU \/ ApplyMemory \/ ApplyPods

CalcSpec == CalcInit /\ [][CalcNext]_vars

(***************************************************************************)
(* Properties.  Under SeqSpec one request is served at a time, so for the  *)
(* request that is done flagBefore is the sticky state before its          *)
(* evaluation, shouldRandomize the state after it and episode the answer   *)
(* to the request before it.                                               *)
(***************************************************************************)

\* The handler of goroutine p has written its answer.
Done(p) == pc[p] = "done"

\* This step writes the answer to the request of goroutine p.
Answers(p) == pc[p] \notin {"idle", "done", "failed"} /\ pc'[p] = "done"

\* The snapshot of the request goroutine p serves in this step.
StepMetrics(p) == IF pc[p] = "idle" THEN resourceMetrics'[p] ELSE resourceMetrics[p]

\* The answer is RESOURCE_EXHAUSTED with 400, given without a draw.
RejectedFromLock(p) ==
  /\ status[p] = "RESOURCE_EXHAUSTED"
  /\ statusCode[p] = StatusBadRequest
  /\ randomValue[p] = NoDraw

C1_LockedRejects ==
  \A p \in Procs :
    Done(p) /\ ~flagBefore /\ InEpisode(resourceMetrics[p])
      => RejectedFromLock(p) /\ ~shouldRandomize

C1_LockHeld ==
  (~shouldRandomize /\ shouldRandomize')
    => \E p \in Procs :
         Answers(p) /\ ReachesTest(resourceMetrics[p]) /\ ~BothAbove(resourceMetrics[p])

\* C1 (stickiness, requests served one at a time): an evaluation that
\* starts in LOCKED_REJECT with a ready, non-shortage, overloaded snapshot
\* answers RESOURCE_EXHAUSTED with 400, draws nothing and leaves the lock
\* in place; the lock is given up only by the step that answers a request
\* which reached the overload test with a snapshot that is not overloaded.
C1_Stickiness == []C1_LockedRejects /\ [][C1_LockHeld]_vars

C1_Witness ==
  \E p \in Procs :
    /\ Done(p) /\ ~flagBefore /\ InEpisode(resourceMetrics[p])
    /\ RejectedFromLock(p) /\ ~shouldRandomize

\* C2 (as claimed): two evaluations are never both between their read of
\* shouldRandomize as true (line 128) and their draw (line 130).
C2_NoTwoDraws ==
  \A p, q \in Procs : p # q => ~(pc[p] = "draw" /\ pc[q] = "draw")

\* C3 (as claimed): the reset of a non-overloaded evaluation (line 163)
\* never falls between another evaluation's read of the flag (line 128)
\* and its lock transition (line 134).
C3_ExclusiveAccess ==
  [][\A q \in Procs :
       (pc[q] = "reset" /\ pc'[q] = "done" /\ ~BothAbove(resourceMetrics[q]))
         => \A p \in Procs \ {q} :
              ~(pc[p] = "draw" /\ InEpisode(resourceMetrics[p]))]_vars

\* C4 (as claimed): an evaluation of an overload episode returns the accept
\* value of the evaluation before it in that episode, hence that of the
\* first one.
C4_SameAsFirst ==
  \A p \in Procs :
    Done(p) /\ InEpisode(resourceMetrics[p]) /\ episode # "none"
      => lastAnswer = episode

\* C4 (amended): within an overload episode a rejection is kept: after a
\* rejected evaluation the next one of the episode is rejected without a
\* draw; after an accepted one the next one starts UNLOCKED and draws again,
\* whatever was drawn before.
C4_RejectionKept ==
  \A p \in Procs :
    Done(p) /\ InEpisode(resourceMetrics[p]) =>
      /\ episode = "rejected" => RejectedFromLock(p) /\ lastAnswer = "rejected"
      /\ episode = "accepted" => flagBefore /\ randomValue[p] # NoDraw

C4_Witness ==
  \E p \in Procs :
    /\ Done(p) /\ InEpisode(resourceMetrics[p])
    /\ episode = "accepted" /\ lastAnswer = "rejected"
    /\ randomValue[p] > MinimumPodsToKeepPercent

\* C5 (requests served one at a time): shouldRandomize goes from true to
\* false only in the step that answers a request whose snapshot is ready,
\* not in shortage and overloaded, and from false to true only in the step
\* that answers a request which reached the overload test with a snapshot
\* that is not overloaded.
C5_Transitions ==
  [][/\ (shouldRandomize /\ ~shouldRandomize')
          => \E p \in Procs : Answers(p) /\ InEpisode(resourceMetrics[p])
     /\ (~shouldRandomize /\ shouldRandomize')
          => \E p \in Procs :
               /\ Answers(p)
               /\ ReachesTest(resourceMetrics[p])
               /\ ~BothAbove(resourceMetrics[p])]_vars

C5_Witness ==
  \E p \in Procs :
    /\ Done(p) /\ ~flagBefore /\ shouldRandomize
    /\ ~BothAbove(resourceMetrics[p])

C6_Answer ==
  \A p \in Procs :
    pc[p] \notin {"idle", "failed"} /\ ~resourceMetrics[p].ContainerReady =>
      /\ pc[p] \in {"collected", "done"}
      /\ Done(p) => /\ status[p] = "NOT_READY"
                    /\ statusCode[p] = StatusOK
                    /\ randomValue[p] = NoDraw

C6_Frame ==
  \A p \in Procs :
    pc'[p] # pc[p] /\ ~StepMetrics(p).ContainerReady
      => shouldRandomize' = shouldRandomize

\* C6 (concurrent requests): a request whose snapshot has
\* containerReady = false is answered NOT_READY with 200 without a draw,
\* and no step of its handler changes shouldRandomize, whatever the usage,
\* the replica counts and the flag are.
C6_NotReady == []C6_Answer /\ [][C6_Frame]_vars

C6_Witness ==
  \E p \in Procs :
    /\ Done(p) /\ ~resourceMetrics[p].ContainerReady
    /\ status[p] = "NOT_READY"
    /\ BothAbove(resourceMetrics[p]) /\ ~BelowMinimum(resourceMetrics[p])
    /\ ~shouldRandomize

C7_Answer ==
  \A p \in Procs :
    (/\ pc[p] # "idle"
     /\ resourceMetrics[p].ContainerReady
     /\ BelowMinimum(resourceMetrics[p])) =>
      /\ pc[p] \in {"collected", "done"}
      /\ Done(p) => /\ status[p] = "POD_SHORTAGE"
                    /\ statusCode[p] = StatusOK
                    /\ randomValue[p] = NoDraw

C7_Frame ==
  \A p \in Procs :
    (/\ pc'[p] # pc[p]
     /\ StepMetrics(p).ContainerReady
     /\ BelowMinimum(StepMetrics(p)))
      => shouldRandomize' = shouldRandomize

\* C7 (concurrent requests): a request whose snapshot is ready with
\* availablePercent < minimumAvailablePercent is answered POD_SHORTAGE with
\* 200 without a draw, and no step of its handler changes shouldRandomize,
\* also when CPU and memory are both above their thresholds and when the
\* flag is false.
C7_ShortageGuard == []C7_Answer /\ [][C7_Frame]_vars

C7_Witness ==
  \E p \in Procs :
    /\ Done(p) /\ resourceMetrics[p].ContainerReady
    /\ BelowMinimum(resourceMetrics[p]) /\ BothAbove(resourceMetrics[p])
    /\ status[p] = "POD_SHORTAGE" /\ statusCode[p] = StatusOK
    /\ ~shouldRandomize

\* C8 (requests served one at a time): an evaluation that reaches the
\* overload test with a snapshot that is not overloaded answers HEALTHY
\* with 200 and leaves shouldRandomize true, whether the flag was true or
\* false before; an evaluation of an overloaded snapshot that starts with
\* the flag true draws.
C8_Reset ==
  \A p \in Procs :
    Done(p) =>
      /\ (ReachesTest(resourceMetrics[p]) /\ ~BothAbove(resourceMetrics[p]))
           => /\ status[p] = "HEALTHY"
              /\ statusCode[p] = StatusOK
              /\ randomValue[p] = NoDraw
              /\ shouldRandomize
      /\ (InEpisode(resourceMetrics[p]) /\ flagBefore)
           => randomValue[p] # NoDraw

C8_Witness ==
  \E p \in Procs :
    /\ Done(p) /\ ReachesTest(resourceMetrics[p]) /\ ~BothAbove(resourceMetrics[p])
    /\ ~flagBefore /\ shouldRandomize
    /\ status[p] = "HEALTHY"

\* The step in which goroutine p draws r and writes its answer.
Draws(p, r) == pc[p] = "draw" /\ pc'[p] # "draw" /\ randomValue'[p] = r

C9_Answer ==
  \A p \in Procs :
    Done(p) /\ randomValue[p] > MinimumPodsToKeepPercent =>
      /\ status[p] = "RESOURCE_EXHAUSTED"
      /\ statusCode[p] = StatusBadRequest

C9_Locks ==
  \A p \in Procs : \A r \in RandomValues :
    Draws(p, r) /\ r > MinimumPodsToKeepPercent =>
      /\ pc'[p] = "done"
      /\ status'[p] = "RESOURCE_EXHAUSTED"
      /\ statusCode'[p] = StatusBadRequest
      /\ ~shouldRandomize'

\* C9 (concurrent requests): an evaluation that read shouldRandomize as
\* true (UNLOCKED) and draws r > minimumAvailablePercent answers
\* RESOURCE_EXHAUSTED with 400, and the step that answers leaves
\* shouldRandomize false (LOCKED_REJECT).
C9_RejectingDraw == []C9_Answer /\ [][C9_Locks]_vars

C9_Witness ==
  \E p \in Procs :
    /\ Done(p) /\ InEpisode(resourceMetrics[p])
    /\ randomValue[p] > MinimumPodsToKeepPercent
    /\ status[p] = "RESOURCE_EXHAUSTED" /\ statusCode[p] = StatusBadRequest
    /\ ~shouldRandomize

C10_Answer ==
  \A p \in Procs :
    (/\ Done(p) /\ randomValue[p] # NoDraw
     /\ randomValue[p] <= MinimumPodsToKeepPercent) =>
      /\ status[p] = "RESOURCE_OVERLOADED_BUT_KEEPING"
      /\ statusCode[p] = StatusOK

C10_Stays ==
  \A p \in Procs : \A r \in RandomValues :
    Draws(p, r) /\ r <= MinimumPodsToKeepPercent =>
      /\ pc'[p] = "done"
      /\ status'[p] = "RESOURCE_OVERLOADED_BUT_KEEPING"
      /\ statusCode'[p] = StatusOK
      /\ shouldRandomize' = shouldRandomize

\* C10 (concurrent requests): an evaluation that read shouldRandomize as
\* true (UNLOCKED) and draws r <= minimumAvailablePercent,
\* r = minimumAvailablePercent included, answers
\* RESOURCE_OVERLOADED_BUT_KEEPING with 200, and the step that answers
\* leaves shouldRandomize as it is: UNLOCKED stays UNLOCKED.
C10_KeepingDraw == []C10_Answer /\ [][C10_Stays]_vars

C10_Witness ==
  \E p \in Procs :
    /\ Done(p) /\ InEpisode(resourceMetrics[p])
    /\ randomValue[p] = MinimumPodsToKeepPercent
    /\ status[p] = "RESOURCE_OVERLOADED_BUT_KEEPING" /\ statusCode[p] = StatusOK
    /\ shouldRandomize

\* cpuPercent <= cpuPercentThreshold or memPercent <= memPercentThreshold,
\* stated without division: one resource at most is above its threshold.
NotBothAbove(m) ==
  \/ m.ContainerCPUUsage * 100 <= ResourceThresholdCPUPercent * m.ContainerCPULimit
  \/ m.ContainerMemUsage * 100 <= ResourceThresholdMemoryPercent * m.ContainerMemLimit

C13_Answer ==
  /\ \A p \in Procs :
       pc[p] = "failed" =>
         /\ ~client.limits
         /\ statusCode[p] = StatusServiceUnavailable
         /\ status[p] = ""
         /\ randomValue[p] = NoDraw
  /\ ~client.limits => \A p \in Procs : pc[p] \in {"idle", "failed"}

C13_Frame ==
  \A p \in Procs :
    (pc[p] # "failed" /\ pc'[p] = "failed") =>
      /\ shouldRandomize' = shouldRandomize
      /\ resourceOverLoaded' = resourceOverLoaded

\* C13 (the handler with a Client that holds no limits): a /healthz request
\* is answered 503, gets no status label, reaches no step of the decision
\* and draws nothing, and the step that answers it leaves shouldRandomize
\* and resourceOverLoaded as they are.
C13_CollectionFailure == []C13_Answer /\ [][C13_Frame]_vars

C13_Witness ==
  \E p \in Procs :
    /\ pc[p] = "failed" /\ ~client.limits
    /\ statusCode[p] = StatusServiceUnavailable
    /\ shouldRandomize

\* The status labels answered with accept = true.
AcceptLabels ==
  {"HEALTHY", "NOT_READY", "POD_SHORTAGE", "RESOURCE_OVERLOADED_BUT_KEEPING"}

\* C14 (concurrent requests, Client with or without limits): an answer
\* with one of the four accepting labels has the code 200, an answer with
\* RESOURCE_EXHAUSTED has 400, no answer has another label, and the answer
\* to a failed collection has 503 and no label.
C14_WireStatus ==
  \A p \in Procs :
    /\ Done(p) =>
         \/ status[p] \in AcceptLabels /\ statusCode[p] = StatusOK
         \/ status[p] = "RESOURCE_EXHAUSTED" /\ statusCode[p] = StatusBadRequest
    /\ pc[p] = "failed" =>
         status[p] = "" /\ statusCode[p] = StatusServiceUnavailable

C14_Witness ==
  \E p, q \in Procs :
    /\ Done(p) /\ status[p] = "RESOURCE_EXHAUSTED"
    /\ statusCode[p] = StatusBadRequest
    /\ Done(q) /\ status[q] = "RESOURCE_OVERLOADED_BUT_KEEPING"
    /\ statusCode[q] = StatusOK

\* C15 (concurrent requests): a step of the /metrics handler, taken between
\* any two steps of the /healthz handlers, changes neither shouldRandomize
\* nor resourceOverLoaded nor a position, snapshot, status, status code or
\* draw of a /healthz request: the /healthz requests go on as if the
\* /metrics request had not been there.
C15_MetricsFrame ==
  [][metricsAnswer' # metricsAnswer =>
       UNCHANGED <<shouldRandomize, resourceOverLoaded, pc, resourceMetrics,
                   status, statusCode, randomValue>>]_vars

C15_Witness ==
  /\ metricsAnswer = StatusOK
  /\ ~shouldRandomize
  /\ \E p \in Procs : pc[p] = "rand" /\ InEpisode(resourceMetrics[p])

\* The snapshot m carries the zero values of the fields whose query failed
\* and the cached limits.
Degraded(m) ==
  /\ "deployment" \in m.failed
       => m.DeploymentReplicas = 0 /\ m.DeploymentAvailableReplicas = 0
  /\ "pod" \in m.failed => ~m.ContainerReady
  /\ "usage" \in m.failed
       => m.ContainerCPUUsage = 0 /\ m.ContainerMemUsage = 0
  /\ m.ContainerCPULimit = ContainerLimits.CPULimit
  /\ m.ContainerMemLimit = ContainerLimits.MemLimit

\* C16 (concurrent requests): with the limits cached, a failed deployment,
\* pod or usage query does not fail the collection: the request is never
\* answered 503, its snapshot holds zero or false in the fields of the
\* failed query, and the decision is taken on that snapshot: NOT_READY when
\* it is not ready, POD_SHORTAGE when it is ready and below the minimum,
\* one of the three overload verdicts otherwise.
C16_Degraded ==
  \A p \in Procs :
    pc[p] # "idle" =>
      /\ pc[p] # "failed"
      /\ statusCode[p] # StatusServiceUnavailable
      /\ Degraded(resourceMetrics[p])
      /\ Done(p) =>
           /\ status[p] = "NOT_READY" <=> ~resourceMetrics[p].ContainerReady
           /\ status[p] = "POD_SHORTAGE"
                <=> /\ resourceMetrics[p].ContainerReady
                    /\ BelowMinimum(resourceMetrics[p])
           /\ status[p] \in {"NOT_READY", "POD_SHORTAGE", "HEALTHY",
                             "RESOURCE_OVERLOADED_BUT_KEEPING",
                             "RESOURCE_EXHAUSTED"}

C16_Witness ==
  \E p \in Procs :
    /\ Done(p)
    /\ resourceMetrics[p].failed = {"deployment"}
    /\ resourceMetrics[p].ContainerReady
    /\ resourceMetrics[p].DeploymentReplicas = 0
    /\ BothAbove(resourceMetrics[p])
    /\ status[p] = "POD_SHORTAGE" /\ statusCode[p] = StatusOK

\* A request of /healthz or /metrics is being served.
Serving == (\E p \in Procs : pc[p] # "idle") \/ metricsAnswer # 0

C17_Bounded ==
  /\ client.attempts <= maxRetries
  /\ client.phase \in {"checking", "serving"} => client.limits
  /\ client.phase \in {"config", "limits", "exited"} => ~Serving
  /\ Serving => client.limits
  /\ \A p \in Procs : pc[p] # "failed" /\ statusCode[p] # StatusServiceUnavailable
  /\ metricsAnswer # StatusServiceUnavailable

C17_Fatal ==
  /\ (client.phase = "limits" /\ client'.phase = "exited")
       => client.attempts = maxRetries /\ ~client'.limits
  /\ (client.phase = "limits" /\ client'.phase = "limits")
       => client'.attempts = client.attempts + 1 /\ ~client'.limits
  /\ client.phase = "limits" => client'.phase # "serving"
  /\ client.phase = "exited" => client'.phase = "exited"

\* C17 (concurrent requests): initContainerLimits makes at most maxRetries
\* = 5 attempts; it gives up only after the fifth failed attempt, and then
\* the process exits without having started the server and stays exited; the
\* server starts only with the limits cached, so every /healthz and /metrics
\* request is served with cached limits and none is answered 503.
C17_StartupRetries == []C17_Bounded /\ [][C17_Fatal]_vars

C17_Witness ==
  /\ client.phase = "exited"
  /\ client.attempts = maxRetries
  /\ client.lastErr = "ContainerNotFound"
  /\ ~client.limits
  /\ ~Serving

\* The sidecars whose latest answer is not a rejection.
Accepting == {s \in Fleet : sidecars[s].statusCode # StatusBadRequest}

C18_Alone ==
  \A s \in Fleet :
    /\ sidecars[s].statusCode = StatusBadRequest <=> ~sidecars[s].shouldRandomize
    /\ sidecars[s].statusCode = StatusOK
         => /\ sidecars[s].randomValue # NoDraw
            /\ sidecars[s].randomValue <= MinimumPodsToKeepPercent
    /\ (sidecars[s].statusCode = StatusBadRequest /\ sidecars[s].randomValue # NoDraw)
         => sidecars[s].randomValue > MinimumPodsToKeepPercent

C18_Kept ==
  /\ \A s \in Fleet :
       sidecars[s].statusCode = StatusBadRequest
         => /\ sidecars'[s].statusCode = StatusBadRequest
            /\ sidecars'[s].randomValue \in {NoDraw, sidecars[s].randomValue}
  /\ \A s, t \in Fleet :
       (s # t /\ sidecars'[s] # sidecars[s]) => sidecars'[t] = sidecars[t]
  /\ Accepting' \subseteq Accepting

C20_Total ==
  /\ "cpu" \in calc.applied =>
       /\ calc.m.ContainerCPULimit <= 0 => calc.cpu = 0
       /\ calc.m.ContainerCPULimit > 0
            => calc.cpu * calc.m.ContainerCPULimit = calc.m.ContainerCPUUsage * 100
  /\ "mem" \in calc.applied =>
       /\ calc.m.ContainerMemLimit <= 0 => calc.mem = 0
       /\ calc.m.ContainerMemLimit > 0
            => calc.mem * calc.m.ContainerMemLimit = calc.m.ContainerMemUsage * 100
  /\ "pods" \in calc.applied =>
       /\ calc.m.DeploymentReplicas <= 0 => calc.pods = 0
       /\ calc.m.DeploymentReplicas > 0
            => calc.pods * calc.m.DeploymentReplicas
                 = calc.m.DeploymentAvailableReplicas * 100

C20_Witness ==
  /\ calc.applied = {"cpu", "mem", "pods"}
  /\ calc.m.ContainerCPULimit < 0 /\ calc.m.ContainerCPUUsage > 0
  /\ calc.m.ContainerMemLimit = 0 /\ calc.m.ContainerMemUsage < 0
  /\ calc.m.DeploymentReplicas = 0 /\ calc.m.DeploymentAvailableReplicas > 0
  /\ calc.cpu = 0 /\ calc.mem = 0 /\ calc.pods = 0

C21_Ratio ==
  /\ ("cpu" \in calc.applied /\ calc.m.ContainerCPULimit > 0) =>
       /\ calc.cpu * calc.m.ContainerCPULimit = calc.m.ContainerCPUUsage * 100
       /\ calc.cpu > 100 <=> calc.m.ContainerCPUUsage > calc.m.ContainerCPULimit
  /\ ("mem" \in calc.applied /\ calc.m.ContainerMemLimit > 0) =>
       /\ calc.mem * calc.m.ContainerMemLimit = calc.m.ContainerMemUsage * 100
       /\ calc.mem > 100 <=> calc.m.ContainerMemUsage > calc.m.ContainerMemLimit
  /\ ("pods" \in calc.applied /\ calc.m.DeploymentReplicas > 0) =>
       /\ calc.pods * calc.m.DeploymentReplicas
            = calc.m.DeploymentAvailableReplicas * 100
       /\ calc.pods > 100
            <=> calc.m.DeploymentAvailableReplicas > calc.m.DeploymentReplicas

C21_Frame ==
  calc'.applied # calc.applied =>
    /\ calc'.m = calc.m
    /\ shouldRandomize' = shouldRandomize
    /\ resourceOverLoaded' = resourceOverLoaded

\* C21: for a denominator > 0 each ratio calculator returns numerator /
\* denominator * 100 without clamping, so the result is above 100 exactly
\* when the numerator is above the denominator, and applying it changes
\* neither the ResourceMetrics nor shouldRandomize nor resourceOverLoaded.
C21_Unclamped == []C21_Ratio /\ [][C21_Frame]_vars

C21_Witness ==
  /\ calc.applied = {"cpu", "mem", "pods"}
  /\ calc.m.DeploymentReplicas = 10 /\ calc.m.DeploymentAvailableReplicas = 15
  /\ calc.pods = 150
  /\ calc.m.ContainerCPULimit = 10 /\ calc.m.ContainerCPUUsage = 5
  /\ calc.cpu = 50
  /\ calc.m.ContainerMemLimit = 10 /\ calc.m.ContainerMemUsage = 15
  /\ calc.mem = 150

\* C22 (as claimed): the process terminates after a signal only when every
\* request that was in flight has been answered.
C22_AllComplete == client.phase \in {"stopped", "exited"} => ~Active

C22_Stopped ==
  /\ client.phase = "stopped" => ~Active
  /\ client.phase = "exited" => client.lastErr = "Shutdown" /\ Active

C22_Draining ==
  /\ client.phase # "serving" =>
       /\ \A p \in Procs : pc[p] = "idle" => pc'[p] = "idle"
       /\ metricsAnswer = 0 => metricsAnswer' = 0
  /\ client.phase \in {"stopped", "exited"} => UNCHANGED vars

\* C22 (amended): after the signal no request is received; requests in
\* flight go on and are answered while Shutdown waits; main returns only
\* when no request is in flight; when the context of Shutdown expires with
\* a request still in flight the process exits through logger.Fatal and
\* that request is never answered.
C22_BoundedWait == []C22_Stopped /\ [][C22_Draining]_vars

C22_Witness ==
  /\ client.phase = "exited"
  /\ client.lastErr = "Shutdown"
  /\ \E p \in Procs : pc[p] = "draw" /\ InEpisode(resourceMetrics[p])

C23_Zeroed ==
  \A p \in Procs :
    pc[p] # "idle" =>
      /\ "deployment" \in resourceMetrics[p].failed
           => /\ resourceMetrics[p].DeploymentReplicas = 0
              /\ resourceMetrics[p].DeploymentAvailableReplicas = 0
      /\ "pod" \in resourceMetrics[p].failed => ~resourceMetrics[p].ContainerReady
      /\ "usage" \in resourceMetrics[p].failed
           => /\ resourceMetrics[p].ContainerCPUUsage = 0
              /\ resourceMetrics[p].ContainerMemUsage = 0
      /\ resourceMetrics[p].ContainerCPULimit = ContainerLimits.CPULimit
      /\ resourceMetrics[p].ContainerMemLimit = ContainerLimits.MemLimit

C23_Once ==
  \A p \in Procs :
    /\ (pc[p] # "idle" /\ pc'[p] # "idle")
         => resourceMetrics'[p] = resourceMetrics[p]
    /\ (pc[p] = "idle" /\ pc'[p] # "idle") => pc'[p] = "collected"
    /\ pc'[p] = "idle" => resourceMetrics'[p] = NoMetrics

\* C23 (concurrent requests): a request builds its snapshot in one
\* collection, with one answer or one failure per query, and nothing is
\* queried again while it is served; the fields of a query that failed
\* are zero whatever earlier requests obtained, the limits are the ones
\* cached at startup, and nothing of the snapshot is left when the request
\* has returned.
C23_NoCacheNoRetry == []C23_Zeroed /\ [][C23_Once]_vars

C23_Witness ==
  \E p \in Procs :
    /\ Done(p)
    /\ resourceMetrics[p].failed = {"usage"}
    /\ resourceMetrics[p].ContainerCPUUsage = 0
    /\ resourceMetrics[p].ContainerMemUsage = 0
    /\ episode = "rejected"
    /\ status[p] = "HEALTHY"

\* C24 (concurrent requests): the response of every request that carries a
\* verdict has in its body the replica count, the available replica count
\* and the availability, memory and CPU percentages of the snapshot of
\* that request, whatever the label and the status code are.
C24_Details ==
  \A p \in Procs :
    Done(p) =>
      /\ status[p] \in {"NOT_READY", "POD_SHORTAGE", "HEALTHY",
                        "RESOURCE_OVERLOADED_BUT_KEEPING", "RESOURCE_EXHAUSTED"}
      /\ details[p].replicas = resourceMetrics[p].DeploymentReplicas
      /\ details[p].available_replicas = resourceMetrics[p].DeploymentAvailableReplicas
      /\ (resourceMetrics[p].DeploymentReplicas > 0
            => details[p].availability_percent * resourceMetrics[p].DeploymentReplicas
                 = resourceMetrics[p].DeploymentAvailableReplicas * 100)
      /\ (resourceMetrics[p].DeploymentReplicas <= 0
            => details[p].availability_percent = 0)
      /\ details[p].memory_percent * resourceMetrics[p].ContainerMemLimit
           = resourceMetrics[p].ContainerMemUsage * 100
      /\ details[p].cpu_percent * resourceMetrics[p].ContainerCPULimit
           = resourceMetrics[p].ContainerCPUUsage * 100

C24_Witness ==
  \E p, q \in Procs :
    /\ p # q
    /\ Done(p) /\ statusCode[p] = StatusBadRequest
    /\ details[p].cpu_percent = 90 /\ details[p].availability_percent = 50
    /\ Done(q) /\ status[q] = "POD_SHORTAGE"
    /\ details[q].cpu_percent = 80 /\ details[q].availability_percent = 20

\* The Config field made of the float variable key, and its default.
FloatField(key) ==
  IF key = "RESOURCE_THRESHOLD_MEMORY_PERCENT"
  THEN conf.cfg.ResourceThresholdMemoryPercent
  ELSE IF key = "RESOURCE_THRESHOLD_CPU_PERCENT"
  THEN conf.cfg.ResourceThresholdCPUPercent
  ELSE conf.cfg.MinimumPodsToKeepPercent

FloatDefault(key) ==
  IF key = "RESOURCE_THRESHOLD_MEMORY_PERCENT" THEN ResourceThresholdMemoryPercent
  ELSE IF key = "RESOURCE_THRESHOLD_CPU_PERCENT" THEN ResourceThresholdCPUPercent
  ELSE MinimumPodsToKeepPercent

\* C25: the field NewConfig makes of a float variable is the number the
\* value stands for when the variable is set to a string that parses (5
\* for "5", 55 for "55"), and the default (80, 80, 50) when the variable is
\* unset or set to a string that does not parse, the empty string included.
C25_FloatOrDefault ==
  conf.cfg.loaded =>
    \A key \in FloatKeys :
      /\ (conf.env[key].set /\ conf.env[key].value = <<"5">>) => FloatField(key) = 5
      /\ (conf.env[key].set /\ conf.env[key].value = <<"5", "5">>)
           => FloatField(key) = 55
      /\ (conf.env[key].set /\ \E i \in 1..Len(conf.env[key].value) :
                                  conf.env[key].value[i] \notin Digits)
           => FloatField(key) = FloatDefault(key)
      /\ (conf.env[key].set /\ conf.env[key].value = <<>>)
           => FloatField(key) = FloatDefault(key)
      /\ ~conf.env[key].set => FloatField(key) = FloatDefault(key)

C25_Witness ==
  /\ conf.cfg.loaded
  /\ conf.env["RESOURCE_THRESHOLD_MEMORY_PERCENT"] = [set |-> TRUE, value |-> <<"5", "5">>]
  /\ conf.cfg.ResourceThresholdMemoryPercent = 55
  /\ conf.env["RESOURCE_THRESHOLD_CPU_PERCENT"] = [set |-> TRUE, value |-> <<"5", "x">>]
  /\ conf.cfg.ResourceThresholdCPUPercent = ResourceThresholdCPUPercent
  /\ ~conf.env["MINIMUM_PODS_TO_KEEP_PERCENT"].set
  /\ conf.cfg.MinimumPodsToKeepPercent = MinimumPodsToKeepPercent

\* C26: the field NewConfig makes of HTTP_PORT with getEnvWithDefault is the
\* value of the variable whenever it is set, the empty value included, and
\* the default when it is unset.
C26_ValueOrDefault ==
  conf.cfg.loaded =>
    /\ conf.env["HTTP_PORT"].set => conf.cfg.HttpPort = conf.env["HTTP_PORT"].value
    /\ ~conf.env["HTTP_PORT"].set => conf.cfg.HttpPort = DefaultPort

C26_Witness ==
  /\ conf.cfg.loaded
  /\ conf.env["HTTP_PORT"] = [set |-> TRUE, value |-> <<>>]
  /\ conf.cfg.HttpPort = <<>>

\* C27 (as claimed): the branch a request takes at line 126 is the one of
\* its own snapshot: a request is on the overloaded branch (test of
\* shouldRandomize, draw, RESOURCE_EXHAUSTED or
\* RESOURCE_OVERLOADED_BUT_KEEPING) only with a snapshot above both
\* thresholds, and on the reset branch only with a snapshot that is not.
C27_OwnSnapshot ==
  \A p \in Procs :
    /\ pc[p] \in {"rand", "draw"} => BothAbove(resourceMetrics[p])
    /\ pc[p] = "reset" => ~BothAbove(resourceMetrics[p])
    /\ (Done(p) /\ status[p] \in {"RESOURCE_EXHAUSTED", "RESOURCE_OVERLOADED_BUT_KEEPING"})
         => BothAbove(resourceMetrics[p])
    /\ (Done(p) /\ status[p] = "HEALTHY") => ~BothAbove(resourceMetrics[p])

\* C28 (fair draws, unending overload episode): every sidecar is at some
\* time in LOCKED_REJECT, and from then on it stays there and every answer
\* it gives is a rejection.
C28_EventuallyLocked ==
  \A s \in Fleet :
    <>[](~sidecars[s].shouldRandomize /\ sidecars[s].statusCode = StatusBadRequest)

C28_Witness ==
  \E s, t \in Fleet :
    /\ ~sidecars[s].shouldRandomize
    /\ sidecars[s].statusCode = StatusBadRequest
    /\ sidecars[s].randomValue = NoDraw
    /\ sidecars[t].shouldRandomize
    /\ sidecars[t].statusCode = StatusOK
    /\ sidecars[t].randomValue = MinimumPodsToKeepPercent

C29_Survives ==
  \A p \in Procs :
    /\ (Done(p) /\ ~flagBefore /\ status[p] \in {"NOT_READY", "POD_SHORTAGE"})
         => ~shouldRandomize /\ randomValue[p] = NoDraw
    /\ (Done(p) /\ ~flagBefore /\ InEpisode(resourceMetrics[p]))
         => RejectedFromLock(p) /\ ~shouldRandomize

C29_ClearedBy ==
  (~shouldRandomize /\ shouldRandomize') =>
    \E p \in Procs :
      /\ Answers(p)
      /\ status'[p] = "HEALTHY"
      /\ resourceMetrics[p].ContainerReady
      /\ ~BelowMinimum(resourceMetrics[p])
      /\ ~BothAbove(resourceMetrics[p])

\* C29 (requests served one at a time): LOCKED_REJECT is left only in the
\* step that answers HEALTHY to a ready, non-shortage request whose
\* snapshot is not overloaded; an evaluation answered NOT_READY or
\* POD_SHORTAGE that starts in LOCKED_REJECT ends in it, also when its usage
\* is not above the thresholds, and an overloaded evaluation that starts
\* in LOCKED_REJECT, the first of a new episode included, is rejected
\* without a draw.
C29_LockSurvives == []C29_Survives /\ [][C29_ClearedBy]_vars

C29_Witness ==
  \E p \in Procs :
    /\ Done(p) /\ InEpisode(resourceMetrics[p])
    /\ ~flagBefore /\ episode = "none"
    /\ RejectedFromLock(p)

\* C30 (requests served one at a time): a request of a ready, non-shortage
\* Pod whose usage query fails has a usage of zero, is answered HEALTHY
\* with 200 without a draw and leaves shouldRandomize true, also when the
\* evaluation starts in LOCKED_REJECT; an overloaded evaluation that starts
\* UNLOCKED draws.
C30_FailedUsageUnlocks ==
  \A p \in Procs :
    Done(p) =>
      /\ (/\ "usage" \in resourceMetrics[p].failed
          /\ resourceMetrics[p].ContainerReady
          /\ ~BelowMinimum(resourceMetrics[p]))
           => /\ resourceMetrics[p].ContainerCPUUsage = 0
              /\ resourceMetrics[p].ContainerMemUsage = 0
              /\ status[p] = "HEALTHY"
              /\ statusCode[p] = StatusOK
              /\ randomValue[p] = NoDraw
              /\ shouldRandomize
      /\ (flagBefore /\ InEpisode(resourceMetrics[p]) /\ episode = "none")
           => randomValue[p] # NoDraw

C30_Witness ==
  \E p \in Procs :
    /\ Done(p)
    /\ resourceMetrics[p].failed = {"usage"}
    /\ ~flagBefore /\ episode = "rejected"
    /\ status[p] = "HEALTHY"
    /\ shouldRandomize

C32_StartsUnlocked ==
  client.phase # "serving" =>
    /\ shouldRandomize
    /\ lastAnswer = "none"
    /\ \A p \in Procs : pc[p] = "idle"

\* The state leaves UNLOCKED only in the step of a request that draws a
\* value above MinimumPodsToKeepPercent.
C32_LockedByDraw ==
  shouldRandomize /\ ~shouldRandomize' =>
    \E p \in Procs : \E r \in RandomValues :
      Draws(p, r) /\ r > MinimumPodsToKeepPercent

\* A request that reads UNLOCKED at line 128 goes on to draw: it is not
\* answered from a lock.
C32_UnlockedDraws ==
  \A p \in Procs :
    pc[p] = "rand" /\ shouldRandomize /\ pc'[p] # "rand" =>
      /\ pc'[p] = "draw"
      /\ status'[p] = "HEALTHY"

\* C32: the process starts UNLOCKED, the lock is set by a draw only, and an
\* overloaded, ready, non-shortage request that finds the state UNLOCKED
\* draws; so the first such request of a process draws and is not rejected
\* from a lock.
C32_FirstDraws ==
  /\ []C32_StartsUnlocked
  /\ [][C32_LockedByDraw /\ C32_UnlockedDraws]_vars

C32_Witness ==
  \E p \in Procs :
    /\ Done(p)
    /\ InEpisode(resourceMetrics[p])
    /\ episode = "none"
    /\ flagBefore
    /\ randomValue[p] > MinimumPodsToKeepPercent
    /\ ~shouldRandomize
    /\ \A q \in Procs \ {p} : pc[q] = "idle"

\* C33 (main's startup, concurrent requests): once NewClient has returned
\* a client, Client.ContainerLimits is set, to limits > 0.
C33_LimitsSet ==
  client.phase \in {"checking", "serving"} =>
    /\ client.limits
    /\ ContainerLimits.CPULimit > 0
    /\ ContainerLimits.MemLimit > 0

\* GetContainerLimits returns no error: the 503 step of /healthz and the
\* 503 step of /metrics cannot be taken, and no request has the code 503.
C33_No503 ==
  /\ \A p \in Procs :
       /\ ~ENABLED CollectFails(p)
       /\ pc[p] # "failed"
       /\ statusCode[p] # StatusServiceUnavailable
  /\ ~ENABLED ServeMetricsFails
  /\ metricsAnswer # StatusServiceUnavailable

\* The snapshot of every request that has one has limits > 0.
C33_PositiveLimits ==
  \A p \in Procs :
    pc[p] # "idle" =>
      /\ resourceMetrics[p].ContainerCPULimit = ContainerLimits.CPULimit
      /\ resourceMetrics[p].ContainerMemLimit = ContainerLimits.MemLimit
      /\ resourceMetrics[p].ContainerCPULimit > 0
      /\ resourceMetrics[p].ContainerMemLimit > 0

\* Client.ContainerLimits, once set, stays set.
C33_NeverReassigned == client.limits => client'.limits

\* C33: the four statements above.
C33_LimitsForLife ==
  /\ [](C33_LimitsSet /\ C33_No503 /\ C33_PositiveLimits)
  /\ [][C33_NeverReassigned]_vars

C33_Witness ==
  /\ client.phase = "serving"
  /\ client.limits
  /\ metricsAnswer = StatusOK
  /\ \E p \in Procs :
       /\ Done(p)
       /\ statusCode[p] = StatusBadRequest
       /\ resourceMetrics[p].ContainerCPULimit > 0

StatusLabels == AcceptLabels \cup {"RESOURCE_EXHAUSTED"}

\* C35 (concurrent requests, Client with or without limits): the answer to
\* a request is either the 503 of a failed collection, without a label, or
\* one of the five labels with its one status code.
C35_OneOutcome ==
  \A p \in Procs :
    /\ pc[p] = "failed" =>
         status[p] = "" /\ statusCode[p] = StatusServiceUnavailable
    /\ pc[p] = "done" =>
         /\ status[p] \in StatusLabels
         /\ statusCode[p] = IF status[p] = "RESOURCE_EXHAUSTED" THEN StatusBadRequest
                            ELSE StatusOK

\* A request is answered once: after its answer the label and the code are
\* left alone and the handler returns; a request with a snapshot does not
\* get to the 503 answer.
C35_AnsweredOnce ==
  \A p \in Procs :
    /\ pc[p] \in {"done", "failed"} =>
         /\ pc'[p] \in {pc[p], "idle"}
         /\ pc'[p] = pc[p] => status'[p] = status[p] /\ statusCode'[p] = statusCode[p]
    /\ pc[p] \notin {"idle", "failed"} => pc'[p] # "failed"

\* A request that has been received is answered.
C35_Terminates ==
  \A p \in Procs : (pc[p] # "idle") ~> (pc[p] \in {"done", "failed"})

\* C35: every request ends with exactly one outcome.
C35_ExactlyOneOutcome ==
  /\ []C35_OneOutcome
  /\ [][C35_AnsweredOnce]_vars
  /\ C35_Terminates

C35_Witness ==
  \E p, q \in Procs :
    /\ pc[p] = "done"
    /\ status[p] = "RESOURCE_EXHAUSTED"
    /\ statusCode[p] = StatusBadRequest
    /\ pc[q] = "done"
    /\ status[q] = "RESOURCE_OVERLOADED_BUT_KEEPING"
    /\ statusCode[q] = StatusOK

\* C36: a call of initContainerLimits makes at most maxRetries Deployment
\* queries and has slept once before each of them but the first; it
\* returns limits, both > 0 and without an error, at the first attempt that
\* finds the named container with valid limits, and it returns an error
\* and no limits after maxRetries attempts that all failed.
C36_Bounded ==
  LET n == Len(limitsInit.tries) IN
    /\ n <= maxRetries
    /\ limitsInit.sleeps = IF n = 0 THEN 0 ELSE n - 1
    /\ \A k \in 1..n :
         limitsInit.tries[k] = "found" => k = n /\ limitsInit.state = "returned"
    /\ (limitsInit.state = "loop" /\ n = maxRetries) =>
         /\ ENABLED LimitsGiveUp
         /\ ~ENABLED (LimitsGetFails \/ LimitsFound \/ LimitsNotFound)
    /\ limitsInit.state = "returned" =>
         IF limitsInit.err = ""
         THEN /\ n >= 1
              /\ limitsInit.tries[n] = "found"
              /\ limitsInit.limits.CPULimit > 0
              /\ limitsInit.limits.MemLimit > 0
         ELSE /\ n = maxRetries
              /\ \A k \in 1..n : limitsInit.tries[k] # "found"
              /\ limitsInit.limits = NoLimits

C36_Witness ==
  /\ limitsInit.state = "returned"
  /\ limitsInit.err = ""
  /\ Len(limitsInit.tries) = maxRetries
  /\ limitsInit.sleeps = maxRetries - 1
  /\ limitsInit.limits.CPULimit > 0

\* C37: a call in whose every attempt the Deployment had the named
\* container with a CPU or memory limit <= 0 returns the error of the
\* invalid limits.
C37_ReportsInvalidLimits ==
  (/\ limitsInit.state = "returned"
   /\ limitsInit.err # ""
   /\ \A k \in 1..Len(limitsInit.tries) : limitsInit.tries[k] = "invalid")
    => limitsInit.err = "InvalidLimits"

\* C38 (concurrent requests, Client with or without limits): a collection
\* that cannot get the limits has made the Deployment query and no other,
\* and leaves the handler without a snapshot and without details; a
\* collection that gets them makes the three queries.
C38_AbortsAtLimits ==
  \A p \in Procs :
    /\ pc[p] = "failed" =>
         /\ queried[p] = {"deployment"}
         /\ resourceMetrics[p] = NoMetrics
         /\ details[p] = NoDetails
         /\ statusCode[p] = StatusServiceUnavailable
    /\ pc[p] \notin {"idle", "failed"} => queried[p] = Queries

C38_Witness ==
  \E p \in Procs :
    /\ pc[p] = "failed"
    /\ ~client.limits
    /\ queried[p] = {"deployment"}
    /\ resourceMetrics[p] = NoMetrics

====
